---- MODULE Spec2Model ----
(***************************************************************************)
(* A model of the e2b_cli bridge of subconscious-systems/subconscious:     *)
(*   - the Input/Path Validator    (src/examples/e2b_cli/src/utils/retry.ts,*)
(*     second half: sanitizeSandboxPath),                                  *)
(*   - the Retry Policy Engine     (same file, first half: withRetry),     *)
(*   - the Session Manager         (src/examples/e2b_cli/src/session/      *)
(*     manager.ts) with the Tunnel Manager (src/unnamed/part_007, lines    *)
(*     112-394), the Sandbox Adapter (src/examples/e2b_cli/src/config.ts,  *)
(*     lines 134-639) and the Tool Server's start/stop                     *)
(*     (src/examples/e2b_cli/src/tools/e2bServer.ts).                      *)
(*                                                                         *)
(* SpecPath, SpecRetry and SpecSession run one component each.  SpecTunnel  *)
(* runs the Tunnel Manager under a direct caller of its exported functions, *)
(* for every tunnel configuration.  SpecSweepFair is the Session Manager    *)
(* with the tunnel URL supplied from outside, under the fairness the timer  *)
(* and the awaited teardown steps give.                                     *)
(*                                                                         *)
(* Strings are sequences of one-character strings, so that includes,       *)
(* replace, startsWith, normalize and basename are computed character by   *)
(* character as the JavaScript does.                                       *)
(***************************************************************************)
EXTENDS Integers, Sequences, FiniteSets, TLC

VARIABLES
    \* ---- Input/Path Validator ----
    pathPc,        \* "start" | "once" | "twice"
    pathIn,        \* the caller-supplied sandbox path
    pathOut,       \* sanitizeSandboxPath(pathIn), once computed
    pathOut2,      \* sanitizeSandboxPath(pathOut), once computed
    \* ---- Retry Policy Engine: one withRetry(fn, options, onRetry) call ----
    rPc,           \* "idle" | "calling" | "sleeping" | "returned" | "thrown"
    rOptions,      \* the RetryOptions of the call
    rAttempt,      \* the loop variable attempt
    rRaised,       \* the values fn raised, one per failed invocation, in order
    rInvocations,  \* how many times fn was invoked
    rLastError,    \* the local lastError
    rThrown,       \* the value withRetry raised, once it gave up
    rOnRetry,      \* how many times onRetry was called
    \* ---- Session Manager, Sandbox Adapter, Tool Server, Tunnel Manager ----
    now,               \* Date.now(), in ticks; starts at 1 (0 is "not set")
    config,            \* SessionManager.config is loaded
    tunnelConfig,      \* the tunnel section of the configuration
    session,           \* SessionManager.session (NoSession for null)
    idleCheckInterval, \* SessionManager.idleCheckInterval is set
    sb,                \* the E2BSandbox adapters and their remote sandboxes
    ts,                \* the E2BToolServer of each adapter
    tn,                \* the TunnelResult objects
    nSandboxes,        \* adapters that got a sandbox so far
    nTunnels,          \* TunnelResult objects made so far
    tunnelHealth,      \* the tunnel module's tunnelHealth
    pc,                \* where "main" and "sweep" are suspended
    loc,               \* their local variables
    hCall,             \* history: what main's current call observed and did
    hRet,              \* history: how main's last call returned
    hFailed,           \* history: a createSession or a sandbox.kill() failed
    nCalls,            \* operations main has called so far
    \* ---- a direct caller of the Tunnel Manager's exported functions ----
    tm,                \* where it is suspended, the TunnelResult it holds, how
                       \* its last call ended, the last change of tunnelHealth
    \* ---- Tool Server: the module state and the request being handled ----
    sandboxInstance,   \* the module-level sandboxInstance (0 for null)
    rq,                \* the request in the handler, then its response
    nRequests,         \* requests received so far
    \* ---- Sandbox Adapter: file transfer ----
    localFs,           \* the local files: path -> bytes, or absent
    sandboxFs,         \* the files of the sandbox: path -> bytes, or absent
    xf,                \* the last uploadFile or downloadFile call and its outcome
    \* ---- the command line ----
    cli,               \* where runAgent or runAgentWithTask is, the task it
                       \* read, its validation, what was done for the task
    \* ---- Sandbox Adapter: initialize() ----
    ini,               \* the adapter's sandbox, the sandboxes the service made
                       \* for it, and where each initialize() call is
    \* ---- the command line: the environment forwarded to the sandbox ----
    environment,       \* the process environment of each run and the envVars collected from it
    \* ---- Input/Path Validator: validateSandboxPath ----
    pathCheck,         \* the path handed to validateSandboxPath and the result it returned
    \* ---- the command line and the Session Manager it drives ----
    mgr,               \* the manager's session, the one the loop holds, the one the task ran with
    \* ---- fuzzyFindFile, one call ----
    fuzzy,             \* the directory, the path asked for and the result
    \* ---- withRetry: the pacing of one call ----
    pace               \* the delays computed and the onRetry calls, in order

pathVars == <<pathPc, pathIn, pathOut, pathOut2>>

retryVars == <<rPc, rOptions, rAttempt, rRaised, rInvocations, rLastError,
               rThrown, rOnRetry>>

sessionVars == <<now, config, tunnelConfig, session, idleCheckInterval, sb, ts,
                 tn, nSandboxes, nTunnels, tunnelHealth, pc, loc, hCall, hRet,
                 hFailed, nCalls>>

serverVars == <<sandboxInstance, rq, nRequests>>

transferVars == <<localFs, sandboxFs, xf>>

cliVars == <<cli>>

unitVars == <<ini, environment, pathCheck, mgr, fuzzy, pace>>

frontVars == <<serverVars, transferVars, cliVars, unitVars>>

vars == <<pathVars, retryVars, sessionVars, tm, frontVars>>

(***************************************************************************)
(* String helpers (JavaScript String.prototype semantics).                 *)
(***************************************************************************)

\* s.startsWith(prefix)
startsWith(s, prefix) ==
    /\ Len(prefix) <= Len(s)
    /\ SubSeq(s, 1, Len(prefix)) = prefix

\* s.indexOf(pat) + 1: the first position where pat occurs in s, 0 if none
RECURSIVE indexFrom(_, _, _)
indexFrom(s, pat, i) ==
    IF i + Len(pat) - 1 > Len(s) THEN 0
    ELSE IF SubSeq(s, i, i + Len(pat) - 1) = pat THEN i
    ELSE indexFrom(s, pat, i + 1)

indexOf(s, pat) == indexFrom(s, pat, 1)

\* s.includes(pat)
includes(s, pat) == indexOf(s, pat) # 0

\* s.replace(pat, rep) with a string pattern: the first occurrence only
replaceFirst(s, pat, rep) ==
    LET i == indexOf(s, pat)
    IN  IF i = 0 THEN s
        ELSE SubSeq(s, 1, i - 1) \o rep \o SubSeq(s, i + Len(pat), Len(s))

(***************************************************************************)
(* path.posix.normalize and path.posix.basename (Node.js), as called by    *)
(* sanitizeSandboxPath.                                                    *)
(***************************************************************************)

\* the segments of s between "/" separators (empty segments included)
RECURSIVE splitFrom(_, _, _, _)
splitFrom(s, i, cur, acc) ==
    IF i > Len(s) THEN Append(acc, cur)
    ELSE IF s[i] = "/" THEN splitFrom(s, i + 1, <<>>, Append(acc, cur))
    ELSE splitFrom(s, i + 1, Append(cur, s[i]), acc)

split(s) == splitFrom(s, 1, <<>>, <<>>)

\* normalizeString: drop "" and "." segments, resolve ".." against the
\* previous segment; above the root ".." is kept only for a relative path
RECURSIVE normalizeString(_, _, _, _)
normalizeString(segs, i, res, allowAboveRoot) ==
    IF i > Len(segs) THEN res
    ELSE LET seg == segs[i]
         IN  IF seg = <<>> \/ seg = <<".">>
                 THEN normalizeString(segs, i + 1, res, allowAboveRoot)
             ELSE IF seg = <<".", ".">>
                 THEN IF Len(res) > 0 /\ res[Len(res)] # <<".", ".">>
                          THEN normalizeString(segs, i + 1,
                                   SubSeq(res, 1, Len(res) - 1), allowAboveRoot)
                      ELSE IF allowAboveRoot
                          THEN normalizeString(segs, i + 1,
                                   Append(res, seg), allowAboveRoot)
                      ELSE normalizeString(segs, i + 1, res, allowAboveRoot)
             ELSE normalizeString(segs, i + 1, Append(res, seg), allowAboveRoot)

RECURSIVE join(_, _)
join(segs, i) ==
    IF i > Len(segs) THEN <<>>
    ELSE IF i = Len(segs) THEN segs[i]
    ELSE segs[i] \o <<"/">> \o join(segs, i + 1)

posixNormalize(s) ==
    IF Len(s) = 0 THEN <<".">>
    ELSE LET isAbsolute == s[1] = "/"
             trailingSeparator == s[Len(s)] = "/"
             body == join(normalizeString(split(s), 1, <<>>, ~isAbsolute), 1)
         IN  IF Len(body) = 0
                 THEN IF isAbsolute THEN <<"/">>
                      ELSE IF trailingSeparator THEN <<".", "/">> ELSE <<".">>
             ELSE (IF isAbsolute THEN <<"/">> ELSE <<>>) \o body
                  \o (IF trailingSeparator THEN <<"/">> ELSE <<>>)

\* s without its trailing "/" characters
RECURSIVE stripTrailingSlashes(_)
stripTrailingSlashes(s) ==
    IF Len(s) > 0 /\ s[Len(s)] = "/"
        THEN stripTrailingSlashes(SubSeq(s, 1, Len(s) - 1))
    ELSE s

posixBasename(s) ==
    LET t == stripTrailingSlashes(s)
        segs == split(t)
    IN  IF Len(t) = 0 THEN <<>> ELSE segs[Len(segs)]

(***************************************************************************)
(* DEFAULT_VALIDATION_CONFIG and sanitizeSandboxPath.                      *)
(***************************************************************************)

allowedSandboxDirs ==
    << <<"/", "h", "o", "m", "e", "/", "u", "s", "e", "r", "/", "i", "n", "p", "u", "t">>,
       <<"/", "h", "o", "m", "e", "/", "u", "s", "e", "r", "/", "o", "u", "t", "p", "u", "t">>,
       <<"/", "h", "o", "m", "e", "/", "u", "s", "e", "r">>,
       <<"/", "t", "m", "p">> >>

blockedPatterns ==
    << <<".", ".", "/">>,
       <<"/", "e", "t", "c", "/">>,
       <<"/", "v", "a", "r", "/">>,
       <<"/", "r", "o", "o", "t", "/">>,
       <<"/", "p", "r", "o", "c", "/">>,
       <<"/", "s", "y", "s", "/">>,
       <<"/", "d", "e", "v", "/">> >>

\* "/home/user/output/"
defaultOutputPrefix ==
    <<"/", "h", "o", "m", "e", "/", "u", "s", "e", "r", "/", "o", "u", "t", "p", "u", "t", "/">>

\* while (sanitized.includes(pattern)) sanitized = sanitized.replace(pattern, "/")
RECURSIVE removePattern(_, _)
removePattern(s, pattern) ==
    IF includes(s, pattern)
        THEN removePattern(replaceFirst(s, pattern, <<"/">>), pattern)
    ELSE s

\* a pattern pass that removes nothing
keepBlockedPatterns(s, k) == s

\* for (const pattern of config.blockedPatterns) { while ... }
RECURSIVE removeBlockedPatterns(_, _)
removeBlockedPatterns(s, k) ==
    IF k > Len(blockedPatterns) THEN s
    ELSE removeBlockedPatterns(removePattern(s, blockedPatterns[k]), k + 1)

\* config.allowedSandboxDirs.some(dir => p.startsWith(dir) || p === dir)
isAllowed(p) ==
    \E k \in 1..Len(allowedSandboxDirs) :
        startsWith(p, allowedSandboxDirs[k]) \/ p = allowedSandboxDirs[k]

\* the redirect of a path that is outside every allowed directory
redirectToOutput(p) == defaultOutputPrefix \o posixBasename(p)

sanitizeSandboxPath(sandboxPath) ==
    IF Len(sandboxPath) = 0
        THEN defaultOutputPrefix \o <<"o", "u", "t", "p", "u", "t">>
    ELSE LET stripped == removeBlockedPatterns(sandboxPath, 1)
             normalized == posixNormalize(stripped)
             rooted == IF startsWith(normalized, <<"/">>) THEN normalized
                       ELSE <<"/">> \o normalized
         IN  IF isAllowed(rooted) THEN rooted ELSE redirectToOutput(rooted)

(***************************************************************************)
(* The inputs of the path specification: every concatenation of at most    *)
(* MaxChunks chunks, and the paths the specification names.                *)
(***************************************************************************)

MaxChunks == 4

PathChunks ==
    { <<"/">>, <<".">>, <<".", ".">>, <<"x">>,
      <<"/", "t", "m", "p">>, <<"/", "e", "t", "c">>,
      <<"/", "h", "o", "m", "e", "/", "u", "s", "e", "r">> }

RECURSIVE flatten(_, _)
flatten(f, i) ==
    IF i > Len(f) THEN <<>> ELSE f[i] \o flatten(f, i + 1)

ExamplePaths ==
    { <<"/", "h", "o", "m", "e", "/", "u", "s", "e", "r", "/", "o", "u", "t", "p", "u", "t",
        "/", ".", ".", "/", ".", ".", "/", "e", "t", "c", "/", "p", "a", "s", "s", "w", "d">>,
      <<"/", "t", "m", "p", "/", "d", "a", "t", "a", ".", "c", "s", "v">>,
      <<"/", "v", "a", "r", "/", "l", "o", "g", "/", "x">>,
      <<"/", "h", "o", "m", "e", "/", "u", "s", "e", "r", "/", "i", "n", "p", "u", "t",
        "/", "d", "e", "v", "/", "x">>,
      <<".", ".", ".", "/", ".", "/", "e", "t", "c", "/", "/", "s", "y", "s", "/", "x">>,
      <<"/", "p", "r", "o", "c", "/", "r", "o", "o", "t", "/", "t", "m", "p">> }

NoPath == <<"?">>

\* handleUpload / handleDownload hand the requested path to sanitizeSandboxPath
Sanitize ==
    /\ pathPc = "start"
    /\ pathOut' = sanitizeSandboxPath(pathIn)
    /\ pathPc' = "once"
    /\ UNCHANGED <<pathIn, pathOut2>>

\* the sanitized path is handed to sanitizeSandboxPath again
SanitizeAgain ==
    /\ pathPc = "once"
    /\ pathOut2' = sanitizeSandboxPath(pathOut)
    /\ pathPc' = "twice"
    /\ UNCHANGED <<pathIn, pathOut>>

(***************************************************************************)
(* Retry Policy Engine: isRetryableError and withRetry.                    *)
(*                                                                         *)
(* A raised value is a record: an Error instance has isError = TRUE, a     *)
(* name and a message; any other raised value (a thrown string) has        *)
(* isError = FALSE and its text in message.  The field id tells objects    *)
(* apart: the value raised by the n-th invocation of fn has id n, an Error *)
(* that withRetry itself constructs has id 0.                              *)
(***************************************************************************)

\* String.prototype.toLowerCase, on the letters the inputs use
lowerChar(c) ==
    CASE c = "C" -> "c" [] c = "D" -> "d" [] c = "E" -> "e" [] c = "G" -> "g"
      [] c = "I" -> "i"
      [] c = "M" -> "m" [] c = "N" -> "n" [] c = "O" -> "o" [] c = "P" -> "p"
      [] c = "R" -> "r" [] c = "S" -> "s" [] c = "T" -> "t" [] c = "U" -> "u"
      [] c = "Y" -> "y" [] OTHER -> c

toLowerCase(s) == [i \in 1..Len(s) |-> lowerChar(s[i])]

\* the name property of a plain Error: "Error"
ErrorName == <<"E", "r", "r", "o", "r">>

\* new Error(String(value)), made by withRetry
newError(text) == [isError |-> TRUE, name |-> ErrorName, message |-> text, id |-> 0]

\* a conversion that wraps every raised value, Error instances too
asErrorAlwaysWrapped(error) == newError(error.message)

\* error instanceof Error ? error : new Error(String(error))
asError(error) == IF error.isError THEN error ELSE newError(error.message)

\* `${name}: ${message}` of the lower-cased name and message
errorStr(error) ==
    toLowerCase(error.name) \o <<":", " ">> \o toLowerCase(error.message)

\* some pattern of the list occurs in the error string, both lower-cased
matchesAny(error, patterns) ==
    \E k \in 1..Len(patterns) :
        includes(toLowerCase(errorStr(error)), toLowerCase(patterns[k]))

\* a classification that consults retryableErrors before nonRetryableErrors
isRetryableErrorAllowFirst(error, options) ==
    IF Len(options.retryableErrors) # 0 /\ matchesAny(error, options.retryableErrors)
        THEN TRUE
    ELSE ~matchesAny(error, options.nonRetryableErrors)

isRetryableError(error, options) ==
    IF matchesAny(error, options.nonRetryableErrors) THEN FALSE
    ELSE IF Len(options.retryableErrors) = 0 THEN TRUE
    ELSE matchesAny(error, options.retryableErrors)

\* a last-attempt test that is off by one
isLastAttemptOneEarly(attempt, options) == attempt = options.maxAttempts - 2

\* const isLastAttempt = attempt === options.maxAttempts - 1
isLastAttempt(attempt, options) == attempt = options.maxAttempts - 1

\* const shouldRetry = !isLastAttempt && isRetryableError(lastError, options)
shouldRetry(attempt, error, options) ==
    ~isLastAttempt(attempt, options) /\ isRetryableError(error, options)

(***************************************************************************)
(* The inputs of the retry specification.                                  *)
(***************************************************************************)

MaxAttempts == 3

\* names and messages of the raised values
TypeErrorName == <<"T", "y", "p", "e", "E", "r", "r", "o", "r">>

RaisedNames == {ErrorName, TypeErrorName}

RaisedMessages ==
    { <<>>,
      <<"E", "T", "I", "M", "E", "D", "O", "U", "T">>,
      <<"b", "a", "d">>,
      <<"T", "Y", "P", "E", "E", "R", "R", "O", "R", " ", "e", "t", "i", "m", "e", "d", "o", "u", "t">> }

\* lists of patterns an options record may carry; <<>> stands for an absent
\* or empty list, which the code treats alike
NonRetryableLists == { <<>>, << <<"T", "y", "p", "e", "E", "r", "r", "o", "r">> >> }

RetryableLists == { <<>>, << <<"E", "T", "I", "M", "E", "D", "O", "U", "T">> >> }

RetryOptionsSet ==
    [maxAttempts : 1..MaxAttempts,
     retryableErrors : RetryableLists,
     nonRetryableErrors : NonRetryableLists]

\* what the n-th invocation of fn may raise
RaisedValues(n) ==
    [isError : {TRUE}, name : RaisedNames, message : RaisedMessages, id : {n}]
    \cup [isError : {FALSE}, name : {<<>>}, message : RaisedMessages \ {<<>>}, id : {n}]

NoError == [isError |-> FALSE, name |-> <<>>, message |-> <<>>, id |-> -1]

\* let lastError = new Error("No attempts made"); the text is not modelled
NoAttemptsMade == newError(<<"n", "o", "n", "e">>)

\* return await fn(), fn resolving
InvokeReturns ==
    /\ rPc = "calling"
    /\ rInvocations' = rInvocations + 1
    /\ rPc' = "returned"
    /\ UNCHANGED <<rOptions, rAttempt, rRaised, rLastError, rThrown, rOnRetry>>

\* await fn() raising error: the catch block, up to the throw or the sleep
InvokeRaises(error) ==
    /\ rPc = "calling"
    /\ rInvocations' = rInvocations + 1
    /\ rRaised' = Append(rRaised, error)
    /\ rLastError' = asError(error)
    /\ IF shouldRetry(rAttempt, asError(error), rOptions)
           THEN /\ rOnRetry' = rOnRetry + 1
                /\ rPc' = "sleeping"
                /\ UNCHANGED rThrown
           ELSE /\ rThrown' = asError(error)
                /\ rPc' = "thrown"
                /\ UNCHANGED rOnRetry
    /\ UNCHANGED <<rOptions, rAttempt>>

\* await sleep(delayMs) resolving: attempt++, and the loop test
Wake ==
    /\ rPc = "sleeping"
    /\ rAttempt' = rAttempt + 1
    /\ IF rAttempt + 1 < rOptions.maxAttempts
           THEN /\ rPc' = "calling"
                /\ UNCHANGED rThrown
           ELSE /\ rPc' = "thrown"
                /\ rThrown' = rLastError
    /\ UNCHANGED <<rOptions, rRaised, rInvocations, rLastError, rOnRetry>>

(***************************************************************************)
(* Session Manager, with the parts of the Sandbox Adapter, Tool Server and *)
(* Tunnel Manager it drives.                                               *)
(*                                                                         *)
(* Two activations run on the one event loop: "main", the caller of        *)
(* getOrCreateSession / reset / cleanup / markActive, and "sweep", the     *)
(* callback of the idle-check interval.  An action is the code that runs   *)
(* between two awaits that wait for I/O (loadConfig, Sandbox.create, the   *)
(* environment set-up, server.listen, localtunnel, server.close,           *)
(* sandbox.kill); awaits of already-settled promises do not let a timer or *)
(* another callback in, so they do not end an action.                      *)
(*                                                                         *)
(* Sandbox adapters and their tool servers are numbered 1..MaxSessions in  *)
(* the order Sandbox.create succeeds; TunnelResult objects are numbered    *)
(* 1..MaxTunnels in the order they are made.  0 stands for null.           *)
(***************************************************************************)

MaxSessions == 2
MaxTunnels == 2
MaxTime == 5
MaxFailures == 3
MaxCalls == 3

\* config.session.idleTimeoutMs and config.session.maxDurationMs, in ticks
IdleTimeoutMs == 1
MaxDurationMs == 2

\* needsReconnection: consecutiveFailures >= 3
ReconnectThreshold == 3

\* startHealthMonitoring: const MAX_CONSECUTIVE_FAILURES = 3
MAX_CONSECUTIVE_FAILURES == 3

Procs == {"main", "sweep"}

NoSession == [id |-> 0, tunnel |-> 0, createdAt |-> 0, lastUsedAt |-> 0]

\* tunnelHealth = { isHealthy: true, lastChecked: 0, consecutiveFailures: 0 };
\* lastChecked and error are written and never read by a decision
HealthyBaseline == [isHealthy |-> TRUE, consecutiveFailures |-> 0]

NoSandbox ==
    [handle |-> FALSE, remote |-> "none", expired |-> FALSE,
     initTime |-> 0, lastActivityTime |-> 0]

NoTunnel == [kind |-> "none", state |-> "none", timer |-> FALSE, probing |-> FALSE]

NoLocals == [sandbox |-> 0, tunnel |-> 0, cont |-> "return", createdAt |-> 0]

\* one tunnel configuration for each way setupTunnel can go; externalUrl
\* says that process.env.TUNNEL_URL is set
TunnelConfigs ==
    { [externalUrl |-> TRUE, enabled |-> TRUE, autoStart |-> TRUE],
      [externalUrl |-> FALSE, enabled |-> FALSE, autoStart |-> TRUE],
      [externalUrl |-> FALSE, enabled |-> TRUE, autoStart |-> TRUE],
      [externalUrl |-> FALSE, enabled |-> TRUE, autoStart |-> FALSE] }

\* ---- what is recorded of main's current call, for the properties ----
NoCall ==
    [op |-> "none", oldId |-> 0, oldTunnel |-> 0, prev |-> 0,
     alive |-> FALSE, idleTimedOut |-> FALSE, maxDurationExceeded |-> FALSE,
     needsReconnection |-> FALSE, inIdleWindow |-> FALSE, inMaxWindow |-> FALSE,
     reconnect |-> "none", createdSandbox |-> 0, createdTunnel |-> 0]

NoReturn == [kind |-> "none", id |-> 0, tunnel |-> 0, refreshed |-> FALSE]

(***************************************************************************)
(* Sandbox Adapter: liveness and time-out queries.                         *)
(***************************************************************************)

\* E2BSandbox.isAlive
isAlive(n) == sb[n].handle /\ ~sb[n].expired

\* E2BSandbox.isIdleTimedOut
isIdleTimedOut(n) ==
    /\ sb[n].lastActivityTime # 0
    /\ now - sb[n].lastActivityTime > IdleTimeoutMs

\* E2BSandbox.isMaxDurationExceeded
isMaxDurationExceeded(n) ==
    /\ sb[n].initTime # 0
    /\ now - sb[n].initTime > MaxDurationMs

\* E2BSandbox.updateActivity
updateActivity(n) == [sb EXCEPT ![n].lastActivityTime = now]

\* E2BSandbox.cleanup, after sandbox.kill() settled
releaseSandbox(n, killed) ==
    [sb EXCEPT ![n] = [handle |-> FALSE,
                       remote |-> IF killed THEN "killed" ELSE @.remote,
                       expired |-> @.expired,
                       initTime |-> 0, lastActivityTime |-> 0]]

(***************************************************************************)
(* Tunnel Manager.                                                         *)
(***************************************************************************)

needsReconnection ==
    /\ ~tunnelHealth.isHealthy
    /\ tunnelHealth.consecutiveFailures >= ReconnectThreshold

\* a stopTunnel that leaves the tunnel and its monitor as they are
stopTunnelLeavesOpen(t) == tn

\* stopTunnel(result), the TunnelResult's part: clearInterval, tunnel.close().
\* (close() emits "close", whose handler sets isHealthy to false; stopTunnel
\* then resets tunnelHealth, which every caller of this operator models.)
stopTunnel(t) ==
    [tn EXCEPT ![t] = [@ EXCEPT !.state = "stopped", !.timer = FALSE]]

\* startLocaltunnelWithRetry resolving: the tunnel, with its health monitor
startedTunnel(t) ==
    [tn EXCEPT ![t] = [kind |-> "tunnel", state |-> "active",
                       timer |-> TRUE, probing |-> FALSE]]

\* setupTunnel returning { url, autoStarted: false }: no tunnel, no monitor
urlResult(t) ==
    [tn EXCEPT ![t] = [kind |-> "url", state |-> "active",
                       timer |-> FALSE, probing |-> FALSE]]

\* a precedence that looks at tunnelConfig.enabled before TUNNEL_URL
setupTunnelBranchEnabledFirst(cfg) ==
    IF ~cfg.enabled THEN "local"
    ELSE IF cfg.externalUrl THEN "external"
    ELSE IF cfg.autoStart THEN "auto"
    ELSE "throw"

\* setupTunnel's precedence
setupTunnelBranch(cfg) ==
    IF cfg.externalUrl THEN "external"
    ELSE IF ~cfg.enabled THEN "local"
    ELSE IF cfg.autoStart THEN "auto"
    ELSE "throw"

(***************************************************************************)
(* Tool Server: stop().                                                    *)
(***************************************************************************)

\* E2BToolServer.stop: server.close() when this.server is set
stopServer(n) ==
    IF ts[n] \in {"listening", "closing"} THEN [ts EXCEPT ![n] = "closing"] ELSE ts

(***************************************************************************)
(* SessionManager.validateSession, the checks before the tunnel check.     *)
(***************************************************************************)

sandboxUsable(n) ==
    /\ isAlive(n)
    /\ ~isIdleTimedOut(n)
    /\ ~isMaxDurationExceeded(n)

\* the record of a call of main's, as it starts
calledRecord(op) ==
    [NoCall EXCEPT
        !.op = op, !.oldId = session.id, !.oldTunnel = session.tunnel,
        !.prev = IF hRet.kind \in {"reused", "created"} THEN hRet.id ELSE 0]

\* what getOrCreateSession finds when it tests and validates this.session
observedCall ==
    IF session = NoSession THEN calledRecord("goc")
    ELSE [calledRecord("goc") EXCEPT
             !.alive = isAlive(session.id),
             !.idleTimedOut = isIdleTimedOut(session.id),
             !.maxDurationExceeded = isMaxDurationExceeded(session.id),
             !.needsReconnection = needsReconnection,
             !.inIdleWindow = (now - session.lastUsedAt <= IdleTimeoutMs),
             !.inMaxWindow = (now - session.createdAt <= MaxDurationMs)]

\* main, at rest, calls an operation of the manager
StartCall ==
    /\ pc["main"] = "idle"
    /\ nCalls < MaxCalls
    /\ nCalls' = nCalls + 1

(***************************************************************************)
(* SessionManager.cleanup.                                                 *)
(***************************************************************************)

\* where a caller goes on when its cleanup() has returned: into
\* getOrCreateSession, which finds no session (getOrCreateSession and reset),
\* or back to its own caller
resumePc(cont) ==
    IF cont = "create" THEN (IF config THEN "cs_sandbox" ELSE "goc_load")
    ELSE "idle"

\* the await at which cleanup next suspends once toolServer.stop() is done:
\* sandbox.kill() if the adapter holds a sandbox, none otherwise
afterStop(n) == IF sb[n].handle THEN "cl_killing" ELSE "end"

\* the await at which cleanup first suspends: server.close() if the server
\* is set
afterStopTunnel(n) ==
    IF ts[n] \in {"listening", "closing"} THEN "cl_stopping" ELSE afterStop(n)

\* the locals of p at target: none at rest; createSession reads Date.now()
locAt(p, target) ==
    IF target = "idle" THEN NoLocals
    ELSE IF target = "cs_sandbox" THEN [NoLocals EXCEPT !.createdAt = now]
    ELSE loc[p]

goto(p, target) ==
    /\ pc' = [pc EXCEPT ![p] = target]
    /\ loc' = [loc EXCEPT ![p] = locAt(p, target)]

\* cleanup() up to its first await, run by p with continuation cont
CleanupBegin(p, cont) ==
    /\ idleCheckInterval' = FALSE
    /\ IF session = NoSession
           THEN /\ goto(p, resumePc(cont))
                /\ UNCHANGED <<tn, tunnelHealth, ts, session>>
           ELSE LET n == session.id
                    target == afterStopTunnel(n)
                    next == IF target = "end" THEN resumePc(cont) ELSE target
                IN  /\ tn' = stopTunnel(session.tunnel)
                    /\ tunnelHealth' = HealthyBaseline
                    /\ ts' = stopServer(n)
                    /\ session' = IF target = "end" THEN NoSession ELSE session
                    /\ pc' = [pc EXCEPT ![p] = next]
                    /\ loc' = [loc EXCEPT ![p] =
                                  IF target = "end" THEN locAt(p, next)
                                  ELSE [NoLocals EXCEPT !.sandbox = n,
                                                        !.tunnel = session.tunnel,
                                                        !.cont = cont]]

\* main's record of its operation, when cleanup was all of what was left
returnedIfIdle(kind) ==
    IF pc'["main"] = "idle" THEN [NoReturn EXCEPT !.kind = kind] ELSE hRet

\* the "close" event of server n: every cleanup that awaits toolServer.stop()
\* of that server resumes in the same turn of the event loop, and goes on to
\* sandbox.cleanup() up to its sandbox.kill()
ServerClosed(n) ==
    /\ \E p \in Procs : pc[p] = "cl_stopping" /\ loc[p].sandbox = n
    /\ ts' = [ts EXCEPT ![n] = "stopped"]
    /\ LET waiting == {p \in Procs : pc[p] = "cl_stopping" /\ loc[p].sandbox = n}
           target == afterStop(n)
           after(p) == IF target = "end" THEN resumePc(loc[p].cont) ELSE target
       IN  /\ session' = IF target = "end" THEN NoSession ELSE session
           /\ pc' = [p \in Procs |-> IF p \in waiting THEN after(p) ELSE pc[p]]
           /\ loc' = [p \in Procs |->
                         IF p \in waiting THEN locAt(p, after(p)) ELSE loc[p]]
           /\ hRet' = IF "main" \in waiting THEN returnedIfIdle("cleaned") ELSE hRet
    /\ UNCHANGED <<now, config, tunnelConfig, idleCheckInterval, sb, tn,
                   nSandboxes, nTunnels, tunnelHealth, hCall, hFailed, nCalls>>

\* sandbox.kill() settled (killed or raised, the error swallowed): the adapter
\* drops its sandbox, and cleanup ends with this.session = null
CleanupKilled(p, killed) ==
    /\ pc[p] = "cl_killing"
    /\ sb' = releaseSandbox(loc[p].sandbox, killed)
    /\ session' = NoSession
    /\ goto(p, resumePc(loc[p].cont))
    /\ hRet' = IF p = "main" THEN returnedIfIdle("cleaned") ELSE hRet
    /\ hFailed' = (hFailed \/ ~killed)
    /\ UNCHANGED <<now, config, tunnelConfig, idleCheckInterval, ts, tn,
                   nSandboxes, nTunnels, tunnelHealth, hCall, nCalls>>

(***************************************************************************)
(* SessionManager.getOrCreateSession and validateSession.                  *)
(***************************************************************************)

\* getOrCreateSession() on a manager without config: loadConfig is awaited
GocLoadConfig ==
    /\ StartCall
    /\ ~config
    /\ pc' = [pc EXCEPT !["main"] = "goc_load"]
    /\ hCall' = calledRecord("goc")
    /\ hRet' = NoReturn
    /\ UNCHANGED <<now, config, tunnelConfig, session, idleCheckInterval, sb, ts,
                   tn, nSandboxes, nTunnels, tunnelHealth, loc, hFailed>>

\* loadConfig resolved; there is no session yet (only createSession makes
\* one, and it runs with the config set): createSession
ConfigLoaded ==
    /\ pc["main"] = "goc_load"
    /\ session = NoSession
    /\ config' = TRUE
    /\ goto("main", "cs_sandbox")
    /\ UNCHANGED <<now, tunnelConfig, session, idleCheckInterval, sb, ts, tn,
                   nSandboxes, nTunnels, tunnelHealth, hCall, hRet, hFailed,
                   nCalls>>

\* getOrCreateSession(): the session is valid and the tunnel healthy; refresh
\* lastUsedAt and return the session
GocReuse ==
    /\ StartCall
    /\ config
    /\ session # NoSession
    /\ sandboxUsable(session.id)
    /\ ~needsReconnection
    /\ session' = [session EXCEPT !.lastUsedAt = now]
    /\ hCall' = observedCall
    /\ hRet' = [kind |-> "reused", id |-> session.id, tunnel |-> session.tunnel,
                refreshed |-> (session'.lastUsedAt = now)]
    /\ UNCHANGED <<now, config, tunnelConfig, idleCheckInterval, sb, ts, tn,
                   nSandboxes, nTunnels, tunnelHealth, pc, loc, hFailed>>

\* getOrCreateSession(): the sandbox is usable and the tunnel needs
\* reconnection; reconnectTunnelIfNeeded stops the current tunnel and awaits
\* startLocaltunnelWithRetry
GocReconnectStart ==
    /\ StartCall
    /\ config
    /\ session # NoSession
    /\ sandboxUsable(session.id)
    /\ needsReconnection
    /\ tn' = stopTunnel(session.tunnel)
    /\ tunnelHealth' = HealthyBaseline
    /\ pc' = [pc EXCEPT !["main"] = "goc_reconn"]
    /\ loc' = [loc EXCEPT !["main"].tunnel = session.tunnel]
    /\ hCall' = observedCall
    /\ hRet' = NoReturn
    /\ UNCHANGED <<now, config, tunnelConfig, session, idleCheckInterval, sb, ts,
                   nSandboxes, nTunnels, hFailed>>

\* startLocaltunnelWithRetry settled.  reconnectTunnelIfNeeded returns the new
\* TunnelResult, or the current one when the start failed; validateSession
\* stores it in this.session (a TypeError, caught, when this.session is null)
GocReconnected(connected) ==
    /\ pc["main"] = "goc_reconn"
    /\ connected => nTunnels < MaxTunnels
    /\ LET t == nTunnels + 1
           newTunnel == IF connected THEN t ELSE loc["main"].tunnel
       IN  /\ tn' = IF connected THEN startedTunnel(t) ELSE tn
           /\ nTunnels' = IF connected THEN t ELSE nTunnels
           /\ tunnelHealth' = IF connected THEN HealthyBaseline ELSE tunnelHealth
           /\ hCall' = [hCall EXCEPT
                           !.reconnect = IF connected THEN "ok" ELSE "failed",
                           !.createdTunnel = IF connected THEN t ELSE @]
           /\ IF session = NoSession
                  THEN \* validateSession returns false; cleanup() finds no
                       \* session; createSession starts
                       /\ idleCheckInterval' = FALSE
                       /\ goto("main", "cs_sandbox")
                       /\ UNCHANGED <<session, hRet>>
                  ELSE /\ session' = [session EXCEPT !.tunnel = newTunnel,
                                                     !.lastUsedAt = now]
                       /\ goto("main", "idle")
                       /\ hRet' = [kind |-> "reused", id |-> session.id,
                                   tunnel |-> newTunnel,
                                   refreshed |-> (session'.lastUsedAt = now)]
                       /\ UNCHANGED idleCheckInterval
    /\ UNCHANGED <<now, config, tunnelConfig, sb, ts, nSandboxes, hFailed, nCalls>>

\* getOrCreateSession(): the session is not valid; await this.cleanup(), then
\* createSession
GocInvalid ==
    /\ StartCall
    /\ config
    /\ session # NoSession
    /\ ~sandboxUsable(session.id)
    /\ hCall' = observedCall
    /\ hRet' = NoReturn
    /\ CleanupBegin("main", "create")
    /\ UNCHANGED <<now, config, tunnelConfig, sb, nSandboxes, nTunnels, hFailed>>

\* getOrCreateSession(): there is no session; createSession
GocCreate ==
    /\ StartCall
    /\ config
    /\ session = NoSession
    /\ hCall' = observedCall
    /\ hRet' = NoReturn
    /\ goto("main", "cs_sandbox")
    /\ UNCHANGED <<now, config, tunnelConfig, session, idleCheckInterval, sb, ts,
                   tn, nSandboxes, nTunnels, tunnelHealth, hFailed>>

(***************************************************************************)
(* SessionManager.createSession.                                           *)
(***************************************************************************)

\* createSession raises, and main's operation with it
CreateFailed ==
    /\ goto("main", "idle")
    /\ hRet' = [NoReturn EXCEPT !.kind = "threw"]
    /\ hFailed' = TRUE

\* this.session = {...}; this.startIdleCheck(); return this.session
SessionCreated(n, t) ==
    /\ session' = [id |-> n, tunnel |-> t,
                   createdAt |-> loc["main"].createdAt,
                   lastUsedAt |-> loc["main"].createdAt]
    /\ idleCheckInterval' = TRUE
    /\ goto("main", "idle")
    /\ hRet' = [kind |-> "created", id |-> n, tunnel |-> t,
                refreshed |-> (session'.lastUsedAt = now)]

\* sandbox.initialize(): withRetry(Sandbox.create) settled
CsSandboxCreated(created) ==
    /\ pc["main"] = "cs_sandbox"
    /\ created => nSandboxes < MaxSessions
    /\ IF created
           THEN LET n == nSandboxes + 1
                IN  /\ nSandboxes' = n
                    /\ sb' = [sb EXCEPT ![n] =
                                 [handle |-> TRUE, remote |-> "alive",
                                  expired |-> FALSE, initTime |-> now,
                                  lastActivityTime |-> now]]
                    /\ pc' = [pc EXCEPT !["main"] = "cs_env"]
                    /\ loc' = [loc EXCEPT !["main"].sandbox = n]
                    /\ hCall' = [hCall EXCEPT !.createdSandbox = n]
                    /\ UNCHANGED <<hRet, hFailed>>
           ELSE /\ CreateFailed
                /\ UNCHANGED <<nSandboxes, sb, hCall>>
    /\ UNCHANGED <<now, config, tunnelConfig, session, idleCheckInterval, ts, tn,
                   nTunnels, tunnelHealth, nCalls>>

\* setupEnvironment done (its failures are logged only); toolServer.start():
\* sandbox.initialize() finds the sandbox and refreshes lastActivityTime, then
\* server.listen is awaited
CsEnvironmentReady ==
    /\ pc["main"] = "cs_env"
    /\ sb' = updateActivity(loc["main"].sandbox)
    /\ pc' = [pc EXCEPT !["main"] = "cs_listen"]
    /\ UNCHANGED <<now, config, tunnelConfig, session, idleCheckInterval, ts, tn,
                   nSandboxes, nTunnels, tunnelHealth, loc, hCall, hRet, hFailed,
                   nCalls>>

\* server.listen settled: bound, or "error" (always so while another server
\* of the process still listens on the port); then setupTunnel
CsListened(bound) ==
    /\ pc["main"] = "cs_listen"
    /\ bound => \A m \in 1..MaxSessions : ts[m] # "listening"
    /\ LET n == loc["main"].sandbox
           branch == setupTunnelBranch(tunnelConfig)
           t == nTunnels + 1
       IN  IF ~bound
               THEN /\ ts' = [ts EXCEPT ![n] = "failed"]
                    /\ CreateFailed
                    /\ UNCHANGED <<session, idleCheckInterval, tn, nTunnels, hCall>>
           ELSE IF branch = "auto"
               THEN /\ ts' = [ts EXCEPT ![n] = "listening"]
                    /\ pc' = [pc EXCEPT !["main"] = "cs_tunnel"]
                    /\ UNCHANGED <<session, idleCheckInterval, tn, nTunnels,
                                   loc, hCall, hRet, hFailed>>
           ELSE IF branch = "throw"
               THEN /\ ts' = [ts EXCEPT ![n] = "listening"]
                    /\ CreateFailed
                    /\ UNCHANGED <<session, idleCheckInterval, tn, nTunnels, hCall>>
           ELSE /\ nTunnels < MaxTunnels
                /\ ts' = [ts EXCEPT ![n] = "listening"]
                /\ tn' = urlResult(t)
                /\ nTunnels' = t
                /\ hCall' = [hCall EXCEPT !.createdTunnel = t]
                /\ SessionCreated(n, t)
                /\ UNCHANGED hFailed
    /\ UNCHANGED <<now, config, tunnelConfig, sb, nSandboxes, tunnelHealth, nCalls>>

\* startLocaltunnelWithRetry settled, inside setupTunnel
CsTunnelStarted(connected) ==
    /\ pc["main"] = "cs_tunnel"
    /\ connected => nTunnels < MaxTunnels
    /\ LET n == loc["main"].sandbox
           t == nTunnels + 1
       IN  IF connected
               THEN /\ tn' = startedTunnel(t)
                    /\ nTunnels' = t
                    /\ tunnelHealth' = HealthyBaseline
                    /\ hCall' = [hCall EXCEPT !.createdTunnel = t]
                    /\ SessionCreated(n, t)
                    /\ UNCHANGED hFailed
               ELSE /\ CreateFailed
                    /\ UNCHANGED <<session, idleCheckInterval, tn, nTunnels,
                                   tunnelHealth, hCall>>
    /\ UNCHANGED <<now, config, tunnelConfig, sb, ts, nSandboxes, nCalls>>

(***************************************************************************)
(* SessionManager.reset, cleanup (called by main), markActive, idle sweep. *)
(***************************************************************************)

\* a reset() that goes to createSession without the cleanup
CallResetSkipsCleanup ==
    /\ StartCall
    /\ hCall' = calledRecord("reset")
    /\ hRet' = NoReturn
    /\ goto("main", resumePc("create"))
    /\ UNCHANGED <<now, config, tunnelConfig, session, idleCheckInterval, sb, ts,
                   tn, nSandboxes, nTunnels, tunnelHealth, hFailed>>

\* reset(): await this.cleanup(); return await this.getOrCreateSession(),
\* which finds this.session null and goes to createSession
CallReset ==
    /\ StartCall
    /\ hCall' = calledRecord("reset")
    /\ hRet' = NoReturn
    /\ CleanupBegin("main", "create")
    /\ UNCHANGED <<now, config, tunnelConfig, sb, nSandboxes, nTunnels, hFailed>>

\* main calls cleanup()
CallCleanup ==
    /\ StartCall
    /\ hCall' = calledRecord("cleanup")
    /\ CleanupBegin("main", "return")
    /\ hRet' = IF pc'["main"] = "idle" THEN [NoReturn EXCEPT !.kind = "cleaned"]
               ELSE NoReturn
    /\ UNCHANGED <<now, config, tunnelConfig, sb, nSandboxes, nTunnels, hFailed>>

\* markActive()
MarkActive ==
    /\ StartCall
    /\ session # NoSession
    /\ session' = [session EXCEPT !.lastUsedAt = now]
    /\ sb' = updateActivity(session.id)
    /\ UNCHANGED <<now, config, tunnelConfig, idleCheckInterval, ts, tn,
                   nSandboxes, nTunnels, tunnelHealth, pc, loc, hCall, hRet,
                   hFailed>>

\* the idle-check interval fires and finds the session timed out
SweepTick ==
    /\ idleCheckInterval
    /\ pc["sweep"] = "idle"
    /\ session # NoSession
    /\ config
    /\ isIdleTimedOut(session.id) \/ isMaxDurationExceeded(session.id)
    /\ CleanupBegin("sweep", "return")
    /\ UNCHANGED <<now, config, tunnelConfig, sb, nSandboxes, nTunnels, hCall,
                   hRet, hFailed, nCalls>>

(***************************************************************************)
(* The environment: the clock, the sandbox service, the tunnel.            *)
(***************************************************************************)

\* Date.now() advances
Tick ==
    /\ now < MaxTime
    /\ now' = now + 1
    /\ UNCHANGED <<config, tunnelConfig, session, idleCheckInterval, sb, ts, tn,
                   nSandboxes, nTunnels, tunnelHealth, pc, loc, hCall, hRet,
                   hFailed, nCalls>>

\* the sandbox service expires sandbox n (isExpired becomes true)
SandboxExpires(n) ==
    /\ sb[n].remote = "alive"
    /\ ~sb[n].expired
    /\ sb' = [sb EXCEPT ![n].expired = TRUE]
    /\ UNCHANGED <<now, config, tunnelConfig, session, idleCheckInterval, ts, tn,
                   nSandboxes, nTunnels, tunnelHealth, pc, loc, hCall, hRet,
                   hFailed, nCalls>>

\* the health-check interval of tunnel t fires: fetch(healthUrl) is awaited
ProbeStart(t) ==
    /\ tn[t].timer
    /\ ~tn[t].probing
    /\ tn' = [tn EXCEPT ![t].probing = TRUE]
    /\ UNCHANGED <<now, config, tunnelConfig, session, idleCheckInterval, sb, ts,
                   nSandboxes, nTunnels, tunnelHealth, pc, loc, hCall, hRet,
                   hFailed, nCalls>>

\* a successful probe that marks the tunnel healthy and keeps the count
ProbeSucceedsKeepsCount(t) ==
    /\ tn[t].probing
    /\ tn' = [tn EXCEPT ![t].probing = FALSE]
    /\ tunnelHealth' = [tunnelHealth EXCEPT !.isHealthy = TRUE]
    /\ UNCHANGED <<now, config, tunnelConfig, session, idleCheckInterval, sb, ts,
                   nSandboxes, nTunnels, pc, loc, hCall, hRet, hFailed, nCalls>>

\* the probe's fetch resolved with response.ok
ProbeSucceeds(t) ==
    /\ tn[t].probing
    /\ tn' = [tn EXCEPT ![t].probing = FALSE]
    /\ tunnelHealth' = HealthyBaseline
    /\ UNCHANGED <<now, config, tunnelConfig, session, idleCheckInterval, sb, ts,
                   nSandboxes, nTunnels, pc, loc, hCall, hRet, hFailed, nCalls>>

\* the probe's fetch resolved not ok, or raised
ProbeFails(t) ==
    /\ tn[t].probing
    /\ tunnelHealth.consecutiveFailures < MaxFailures
    /\ tn' = [tn EXCEPT ![t].probing = FALSE]
    /\ LET failures == tunnelHealth.consecutiveFailures + 1
       IN  tunnelHealth' =
               [isHealthy |-> IF failures >= MAX_CONSECUTIVE_FAILURES THEN FALSE
                              ELSE tunnelHealth.isHealthy,
                consecutiveFailures |-> failures]
    /\ UNCHANGED <<now, config, tunnelConfig, session, idleCheckInterval, sb, ts,
                   nSandboxes, nTunnels, pc, loc, hCall, hRet, hFailed, nCalls>>

\* tunnel.on("error") of an open tunnel
TunnelError(t) ==
    /\ tn[t].kind = "tunnel"
    /\ tn[t].state = "active"
    /\ tunnelHealth.consecutiveFailures < MaxFailures
    /\ tunnelHealth' =
           [isHealthy |-> FALSE,
            consecutiveFailures |-> tunnelHealth.consecutiveFailures + 1]
    /\ UNCHANGED <<now, config, tunnelConfig, session, idleCheckInterval, sb, ts,
                   tn, nSandboxes, nTunnels, pc, loc, hCall, hRet, hFailed, nCalls>>

(***************************************************************************)
(* The Tunnel Manager on its own: a caller of setupTunnel, stopTunnel and  *)
(* reconnectTunnelIfNeeded that holds at most one TunnelResult, with the   *)
(* health probes and the tunnel's "error" events.                          *)
(***************************************************************************)

\* every tunnel configuration, with process.env.TUNNEL_URL set or not
AllTunnelConfigs == [externalUrl : BOOLEAN, enabled : BOOLEAN, autoStart : BOOLEAN]

NoClient ==
    [pc |-> "idle", result |-> 0, op |-> "none", outcome |-> "none",
     url |-> "none", tunnelsBefore |-> 0, event |-> "none", needed |-> FALSE,
     probesOnly |-> TRUE]

\* the caller's record as a call of op starts
tmCalled(op) ==
    [tm EXCEPT !.op = op, !.outcome = "none", !.url = "none",
               !.tunnelsBefore = nTunnels]

\* the record of a change of tunnelHealth: what made it, whether
\* needsReconnection() was true before it with failed probes alone counted in
\* consecutiveFailures, and whether the failures now counted are all probes'
tmLogged(record, event) ==
    [record EXCEPT
        !.event = event,
        !.needed = (needsReconnection /\ tm.probesOnly),
        !.probesOnly = IF event = "error" THEN FALSE
                       ELSE IF event = "probe_failed" THEN @
                       ELSE TRUE]

\* setupTunnel(localUrl, tunnelConfig), up to its return or to the await of
\* startLocaltunnelWithRetry
TmSetupTunnel ==
    /\ tm.pc = "idle"
    /\ tm.result = 0
    /\ LET branch == setupTunnelBranch(tunnelConfig)
           t == nTunnels + 1
       IN  IF branch \in {"external", "local"}
               THEN /\ nTunnels < MaxTunnels
                    /\ tn' = urlResult(t)
                    /\ nTunnels' = t
                    /\ tm' = [tmCalled("setup") EXCEPT
                                 !.result = t, !.outcome = "returned",
                                 !.url = IF branch = "external" THEN "TUNNEL_URL"
                                         ELSE "localUrl"]
           ELSE IF branch = "auto"
               THEN /\ tm' = [tmCalled("setup") EXCEPT !.pc = "setup"]
                    /\ UNCHANGED <<tn, nTunnels>>
           ELSE /\ tm' = [tmCalled("setup") EXCEPT !.outcome = "threw"]
                /\ UNCHANGED <<tn, nTunnels>>
    /\ UNCHANGED <<now, config, tunnelConfig, session, idleCheckInterval, sb, ts,
                   nSandboxes, tunnelHealth, pc, loc, hCall, hRet, hFailed, nCalls>>

\* startLocaltunnelWithRetry settled, inside setupTunnel
TmTunnelStarted(connected) ==
    /\ tm.pc = "setup"
    /\ connected => nTunnels < MaxTunnels
    /\ LET t == nTunnels + 1
       IN  IF connected
               THEN /\ tn' = startedTunnel(t)
                    /\ nTunnels' = t
                    /\ tunnelHealth' = HealthyBaseline
                    /\ tm' = tmLogged([tm EXCEPT !.pc = "idle", !.result = t,
                                                 !.outcome = "returned",
                                                 !.url = "tunnel.url"], "start")
               ELSE /\ tm' = [tm EXCEPT !.pc = "idle", !.outcome = "threw"]
                    /\ UNCHANGED <<tn, nTunnels, tunnelHealth>>
    /\ UNCHANGED <<now, config, tunnelConfig, session, idleCheckInterval, sb, ts,
                   nSandboxes, pc, loc, hCall, hRet, hFailed, nCalls>>

\* stopTunnel(result); the caller drops the result
TmStopTunnel ==
    /\ tm.pc = "idle"
    /\ tm.result # 0
    /\ tn' = stopTunnel(tm.result)
    /\ tunnelHealth' = HealthyBaseline
    /\ tm' = tmLogged([tmCalled("stop") EXCEPT !.result = 0,
                                               !.outcome = "returned"], "stop")
    /\ UNCHANGED <<now, config, tunnelConfig, session, idleCheckInterval, sb, ts,
                   nSandboxes, nTunnels, pc, loc, hCall, hRet, hFailed, nCalls>>

\* reconnectTunnelIfNeeded(currentResult, ...): returns currentResult when
\* tunnelHealth.isHealthy; else stopTunnel(currentResult) and the await of
\* startLocaltunnelWithRetry
TmReconnect ==
    /\ tm.pc = "idle"
    /\ tm.result # 0
    /\ IF tunnelHealth.isHealthy
           THEN /\ tm' = [tmCalled("reconnect") EXCEPT !.outcome = "current"]
                /\ UNCHANGED <<tn, tunnelHealth>>
           ELSE /\ tn' = stopTunnel(tm.result)
                /\ tunnelHealth' = HealthyBaseline
                /\ tm' = tmLogged([tmCalled("reconnect") EXCEPT !.pc = "reconnect"],
                                  "stop")
    /\ UNCHANGED <<now, config, tunnelConfig, session, idleCheckInterval, sb, ts,
                   nSandboxes, nTunnels, pc, loc, hCall, hRet, hFailed, nCalls>>

\* startLocaltunnelWithRetry settled, inside reconnectTunnelIfNeeded: the new
\* TunnelResult, or currentResult when the start failed
TmReconnected(connected) ==
    /\ tm.pc = "reconnect"
    /\ connected => nTunnels < MaxTunnels
    /\ LET t == nTunnels + 1
       IN  IF connected
               THEN /\ tn' = startedTunnel(t)
                    /\ nTunnels' = t
                    /\ tunnelHealth' = HealthyBaseline
                    /\ tm' = tmLogged([tm EXCEPT !.pc = "idle", !.result = t,
                                                 !.outcome = "new"], "start")
               ELSE /\ tm' = [tm EXCEPT !.pc = "idle", !.outcome = "stale"]
                    /\ UNCHANGED <<tn, nTunnels, tunnelHealth>>
    /\ UNCHANGED <<now, config, tunnelConfig, session, idleCheckInterval, sb, ts,
                   nSandboxes, pc, loc, hCall, hRet, hFailed, nCalls>>

\* the probes and the "error" event, with the change of tunnelHealth recorded
TmProbeStart(t) == ProbeStart(t) /\ UNCHANGED tm

TmProbeSucceeds(t) == ProbeSucceeds(t) /\ tm' = tmLogged(tm, "probe_ok")

TmProbeFails(t) == ProbeFails(t) /\ tm' = tmLogged(tm, "probe_failed")

TmTunnelError(t) == TunnelError(t) /\ tm' = tmLogged(tm, "error")

(***************************************************************************)
(* Tool Server and E2BSandbox.executeCode.                                 *)
(*                                                                         *)
(* Server n is the E2BToolServer constructed with adapter n; all servers   *)
(* of the process are given the configured port.  The handlers read the    *)
(* module-level sandboxInstance.  One request is in the handler at a time; *)
(* an action is the code between two awaits that wait for I/O              *)
(* (Sandbox.create, server.listen, server.close, sandbox.kill, the sandbox *)
(* command, the file transfer, the retry sleep).  executeCode runs         *)
(* withRetry, whose loop is the one of the Retry Policy Engine above.      *)
(***************************************************************************)

MaxRequests == 2

\* an absent property of the request body (undefined)
undefined == <<"undefined">>

\* !x for a string or undefined
falsy(x) == x = undefined \/ x = <<>>

\* execution options under which a timeout is a retryable error
executionRetriesTimeout ==
    [maxAttempts |-> 2,
     retryableErrors |->
         << <<"E", "C", "O", "N", "N", "R", "E", "S", "E", "T">>,
            <<"s", "a", "n", "d", "b", "o", "x">>,
            <<"c", "o", "n", "n", "e", "c", "t", "i", "o", "n">>,
            <<"t", "i", "m", "e", "o", "u", "t">> >>,
     nonRetryableErrors |->
         << <<"S", "y", "n", "t", "a", "x", "E", "r", "r", "o", "r">>,
            <<"T", "y", "p", "e", "E", "r", "r", "o", "r">>,
            <<"R", "e", "f", "e", "r", "e", "n", "c", "e", "E", "r", "r", "o", "r">>,
            <<"N", "a", "m", "e", "E", "r", "r", "o", "r">>,
            <<"I", "n", "d", "e", "n", "t", "a", "t", "i", "o", "n", "E", "r", "r", "o", "r">> >>]

\* DEFAULT_RETRY_OPTIONS.execution, with the delays left out
execution ==
    [maxAttempts |-> 2,
     retryableErrors |->
         << <<"E", "C", "O", "N", "N", "R", "E", "S", "E", "T">>,
            <<"s", "a", "n", "d", "b", "o", "x">>,
            <<"c", "o", "n", "n", "e", "c", "t", "i", "o", "n">> >>,
     nonRetryableErrors |->
         << <<"S", "y", "n", "t", "a", "x", "E", "r", "r", "o", "r">>,
            <<"T", "y", "p", "e", "E", "r", "r", "o", "r">>,
            <<"R", "e", "f", "e", "r", "e", "n", "c", "e", "E", "r", "r", "o", "r">>,
            <<"N", "a", "m", "e", "E", "r", "r", "o", "r">>,
            <<"I", "n", "d", "e", "n", "t", "a", "t", "i", "o", "n", "E", "r", "r", "o", "r">> >>]

\* this.config.retry.execution: the default, or one with another ceiling
ExecutionOptions == {[execution EXCEPT !.maxAttempts = m] : m \in 1..MaxAttempts}

\* new Error("Execution timeout"), raised by the local timer
ExecutionTimeout ==
    [isError |-> TRUE, name |-> ErrorName, id |-> 0,
     message |-> <<"E", "x", "e", "c", "u", "t", "i", "o", "n", " ",
                   "t", "i", "m", "e", "o", "u", "t">>]

\* new Error("Sandbox not initialized"), raised by executeOnce
SandboxNotInitialized ==
    [isError |-> TRUE, name |-> ErrorName, id |-> 0,
     message |-> <<"S", "a", "n", "d", "b", "o", "x", " ", "n", "o", "t", " ",
                   "i", "n", "i", "t", "i", "a", "l", "i", "z", "e", "d">>]

\* new Error(`Unsupported language: ...`), raised by buildCommand; the list
\* of languages that follows in the text holds no pattern of the options
UnsupportedLanguage ==
    [isError |-> TRUE, name |-> ErrorName, id |-> 0,
     message |-> <<"U", "n", "s", "u", "p", "p", "o", "r", "t", "e", "d", " ",
                   "l", "a", "n", "g", "u", "a", "g", "e">>]

\* messages of the errors the sandbox SDK may reject with: transient ones,
\* code errors whose text also holds a retryable pattern, and another one
SandboxMessages ==
    { <<"c", "o", "n", "n", "e", "c", "t", "i", "o", "n", " ", "r", "e", "s", "e", "t">>,
      <<"S", "y", "n", "t", "a", "x", "E", "r", "r", "o", "r", ":", " ",
        "c", "o", "n", "n", "e", "c", "t", "i", "o", "n">>,
      <<"T", "y", "p", "e", "E", "r", "r", "o", "r", ":", " ", "s", "a", "n", "d", "b", "o", "x">>,
      <<"R", "e", "f", "e", "r", "e", "n", "c", "e", "E", "r", "r", "o", "r", ":", " ",
        "E", "C", "O", "N", "N", "R", "E", "S", "E", "T">>,
      <<"N", "a", "m", "e", "E", "r", "r", "o", "r", ":", " ", "s", "a", "n", "d", "b", "o", "x">>,
      <<"I", "n", "d", "e", "n", "t", "a", "t", "i", "o", "n", "E", "r", "r", "o", "r", ":", " ",
        "c", "o", "n", "n", "e", "c", "t", "i", "o", "n">>,
      <<"e", "x", "i", "t", " ", "s", "t", "a", "t", "u", "s", " ", "2">> }

\* what the sandbox call of the n-th executeOnce may reject with
SandboxErrors(n) ==
    [isError : {TRUE}, name : {ErrorName}, message : SandboxMessages, id : {n}]

\* the languages buildCommand has a case for; "cobol" stands for any other
SupportedLanguages ==
    { <<"p", "y", "t", "h", "o", "n">>, <<"b", "a", "s", "h">> }

\* the request bodies: no text, text that is not JSON, the JSON text null,
\* and a JSON object, whose property parameters is absent or an object
BodyTexts == {"empty", "malformed", "null", "object"}

NoParameters ==
    [given |-> FALSE, code |-> undefined, language |-> undefined,
     local_path |-> undefined, sandbox_path |-> undefined, path |-> undefined]

NoRequest ==
    [pc |-> "none", server |-> 0, path |-> "none", method |-> "none",
     body |-> "none", parameters |-> NoParameters,
     status |-> 0, success |-> "none", timeout |-> FALSE,
     target |-> 0, threw |-> FALSE, runs |-> 0,
     sandboxOps |-> FALSE, fsOps |-> FALSE,
     matched |-> undefined, fuzzyMatch |-> FALSE, sanitized |-> undefined,
     pathWasSanitized |-> FALSE, path_sanitized |-> FALSE,
     fuzzy_match |-> FALSE, original_path |-> undefined,
     local_path |-> undefined, sandbox_path |-> undefined]

\* req.json(): bodyText ? JSON.parse(bodyText) : {}
json(r) ==
    CASE r.body = "empty" -> [threw |-> FALSE, isNull |-> FALSE, parameters |-> NoParameters]
      [] r.body = "malformed" -> [threw |-> TRUE, isNull |-> FALSE, parameters |-> NoParameters]
      [] r.body = "null" -> [threw |-> FALSE, isNull |-> TRUE, parameters |-> NoParameters]
      [] OTHER -> [threw |-> FALSE, isNull |-> FALSE, parameters |-> r.parameters]

\* const body = await req.json(); const params = body.parameters: raises
\* when the text is not JSON, and when body is null
paramsRaises(r) == json(r).threw \/ json(r).isNull

\* !params?.<field>
missing(r, field) == ~json(r).parameters.given \/ falsy(json(r).parameters[field])

\* sendResponse(status, body): the response of the request
answered(r, status, success) ==
    [r EXCEPT !.pc = "answered", !.status = status, !.success = success]

(***************************************************************************)
(* The local files the upload and check-file handlers look at: the working *)
(* directory Cwd holds some of LocalNames, each a file or a directory.     *)
(***************************************************************************)

Cwd == <<"/", "w">>

LocalNames ==
    { <<"r", "e", "p", "o", "r", "t">>,
      <<"r", "e", "p", "o", "r", "t", ".", "m", "d">>,
      <<"r", "e", "p", "o", "r", "t", ".", "p", "y">> }

LocalDirs == [LocalNames -> {"none", "file", "dir"}]

\* path.join(dirname, name)
joinPath(dirname, name) == dirname \o <<"/">> \o name

\* path.resolve(expandPath(p)), for a p that does not start with "~"
resolve(p) ==
    IF startsWith(p, <<"/">>) THEN stripTrailingSlashes(posixNormalize(p))
    ELSE stripTrailingSlashes(posixNormalize(joinPath(Cwd, p)))

\* s.lastIndexOf(c) + 1, looking from position i downwards
RECURSIVE lastIndexFrom(_, _, _)
lastIndexFrom(s, c, i) ==
    IF i = 0 THEN 0 ELSE IF s[i] = c THEN i ELSE lastIndexFrom(s, c, i - 1)

\* path.extname(p): from the last "." of the basename, unless that is its
\* first character or there is none
extname(p) ==
    LET b == posixBasename(p)
        i == lastIndexFrom(b, ".", Len(b))
    IN  IF i <= 1 \/ b = <<".", ".">> THEN <<>> ELSE SubSeq(b, i, Len(b))

\* path.dirname(p), for an absolute p below the root
dirname(p) ==
    LET t == stripTrailingSlashes(p)
        i == lastIndexFrom(t, "/", Len(t))
    IN  IF i <= 1 THEN <<"/">> ELSE SubSeq(t, 1, i - 1)

\* fs.stat(p): "none" when it raises
stat(files, p) ==
    IF p = Cwd THEN "dir"
    ELSE IF \E n \in LocalNames : p = joinPath(Cwd, n)
        THEN files[CHOOSE n \in LocalNames : p = joinPath(Cwd, n)]
    ELSE "none"

FUZZY_EXTENSIONS ==
    << <<".", "m", "d">>, <<".", "t", "x", "t">>, <<".", "c", "s", "v">>,
       <<".", "j", "s", "o", "n">>, <<".", "p", "y">>, <<".", "j", "s">>,
       <<".", "t", "s">>, <<".", "h", "t", "m", "l">>, <<".", "x", "m", "l">>,
       <<".", "y", "a", "m", "l">>, <<".", "y", "m", "l">>, <<".", "p", "d", "f">>,
       <<".", "p", "n", "g">>, <<".", "j", "p", "g">>, <<".", "j", "p", "e", "g">>,
       <<".", "g", "i", "f">> >>

\* for (const ext of FUZZY_EXTENSIONS): the first one, from k on, with which
\* filePath names a file; 0 if none
RECURSIVE firstExtension(_, _, _)
firstExtension(files, filePath, k) ==
    IF k > Len(FUZZY_EXTENSIONS) THEN 0
    ELSE IF stat(files, filePath \o FUZZY_EXTENSIONS[k]) = "file" THEN k
    ELSE firstExtension(files, filePath, k + 1)

NotFound == [found |-> FALSE, matchedPath |-> undefined, kind |-> "none", fuzzyMatch |-> FALSE]

\* files.filter(f => f.startsWith(basename) && f !== basename)
prefixMatches(files, filePath) ==
    IF dirname(filePath) # Cwd THEN {}
    ELSE {f \in LocalNames : /\ files[f] # "none"
                             /\ startsWith(f, posixBasename(filePath))
                             /\ f # posixBasename(filePath)}

\* .sort((a, b) => a.length - b.length)[0]: a shortest match; which one of
\* several is the choice of readdir's order
shortestMatches(files, filePath) ==
    {f \in prefixMatches(files, filePath) :
        \A g \in prefixMatches(files, filePath) : Len(f) <= Len(g)}

\* an exact-first search that also flags the exact match
fuzzyFindFileFlagsExact(files, filePath) ==
    IF stat(files, filePath) # "none"
        THEN {[found |-> TRUE, matchedPath |-> filePath,
               kind |-> stat(files, filePath), fuzzyMatch |-> TRUE]}
    ELSE {NotFound}

\* fuzzyFindFile(filePath): the results it may return
fuzzyFindFile(files, filePath) ==
    IF stat(files, filePath) # "none"
        THEN {[found |-> TRUE, matchedPath |-> filePath,
               kind |-> stat(files, filePath), fuzzyMatch |-> FALSE]}
    ELSE IF extname(filePath) = <<>> /\ firstExtension(files, filePath, 1) # 0
        THEN {[found |-> TRUE,
               matchedPath |-> filePath \o FUZZY_EXTENSIONS[firstExtension(files, filePath, 1)],
               kind |-> "file", fuzzyMatch |-> TRUE]}
    ELSE IF shortestMatches(files, filePath) = {} THEN {NotFound}
    ELSE {IF files[f] = "file"
              THEN [found |-> TRUE, matchedPath |-> joinPath(dirname(filePath), f),
                    kind |-> "file", fuzzyMatch |-> TRUE]
          ELSE NotFound : f \in shortestMatches(files, filePath)}

\* "/home/user/input/"
defaultInputPrefix ==
    <<"/", "h", "o", "m", "e", "/", "u", "s", "e", "r", "/", "i", "n", "p", "u", "t", "/">>

\* validateSandboxPath(p).valid, for a p without white space
validSandboxPath(p) ==
    /\ Len(p) # 0
    /\ \A k \in 1..Len(blockedPatterns) : ~includes(p, blockedPatterns[k])

(***************************************************************************)
(* E2BToolServer.start and stop, E2BSandbox.cleanup.                       *)
(***************************************************************************)

\* start(): this.server is null; sandbox.initialize() returns at once when
\* the adapter holds a sandbox, else Sandbox.create is awaited
Start(s) ==
    /\ ts[s] \in {"none", "stopped"}
    /\ IF sb[s].handle
           THEN /\ sb' = updateActivity(s)
                /\ sandboxInstance' = s
                /\ ts' = [ts EXCEPT ![s] = "binding"]
           ELSE /\ ts' = [ts EXCEPT ![s] = "initializing"]
                /\ UNCHANGED <<sb, sandboxInstance>>
    /\ UNCHANGED <<rq, nRequests, retryVars>>

\* initialize() settled: on success setSandboxInstance(this.sandbox), then
\* createServer and listen; on failure start() rejects
StartInitialized(s, created) ==
    /\ ts[s] = "initializing"
    /\ IF created
           THEN /\ sb' = [sb EXCEPT ![s] =
                             [handle |-> TRUE, remote |-> "alive", expired |-> FALSE,
                              initTime |-> now, lastActivityTime |-> now]]
                /\ sandboxInstance' = s
                /\ ts' = [ts EXCEPT ![s] = "binding"]
           ELSE /\ ts' = [ts EXCEPT ![s] = "none"]
                /\ UNCHANGED <<sb, sandboxInstance>>
    /\ UNCHANGED <<rq, nRequests, retryVars>>

\* server.listen settled: bound, or "error" (always so while another server
\* of the process listens on the port)
StartListened(s, bound) ==
    /\ ts[s] = "binding"
    /\ bound => \A m \in 1..MaxSessions : ts[m] # "listening"
    /\ ts' = [ts EXCEPT ![s] = IF bound THEN "listening" ELSE "failed"]
    /\ UNCHANGED <<sb, sandboxInstance, rq, nRequests, retryVars>>

\* stop(): this.server is set, server.close(callback)
Stop(s) ==
    /\ ts[s] \in {"listening", "failed"}
    /\ ts' = [ts EXCEPT ![s] = "closing"]
    /\ UNCHANGED <<sb, sandboxInstance, rq, nRequests, retryVars>>

\* the callback of server.close: no connection is left; this.server = null
StopClosed(s) ==
    /\ ts[s] = "closing"
    /\ ~(rq.server = s /\ rq.pc # "none")
    /\ ts' = [ts EXCEPT ![s] = "stopped"]
    /\ UNCHANGED <<sb, sandboxInstance, rq, nRequests, retryVars>>

\* E2BSandbox.cleanup of adapter a, its sandbox.kill() settled
Cleanup(a) ==
    /\ sb[a].handle
    /\ sb' = releaseSandbox(a, TRUE)
    /\ UNCHANGED <<ts, sandboxInstance, rq, nRequests, retryVars>>

(***************************************************************************)
(* The request handler.                                                    *)
(***************************************************************************)

\* withRetry(executeOnce, this.config.retry.execution, ...) is entered
retryStartedKeepsAttempt ==
    /\ rPc' = "calling"
    /\ rRaised' = <<>>
    /\ rInvocations' = 0
    /\ rLastError' = NoAttemptsMade
    /\ rThrown' = NoError
    /\ rOnRetry' = 0
    /\ UNCHANGED <<rOptions, rAttempt>>

retryStarted ==
    /\ rPc' = "calling"
    /\ rAttempt' = 0
    /\ rRaised' = <<>>
    /\ rInvocations' = 0
    /\ rLastError' = NoAttemptsMade
    /\ rThrown' = NoError
    /\ rOnRetry' = 0
    /\ UNCHANGED rOptions

\* a handler that lets what executeCode raises reach the server's catch
handleExecuteUncaught(r) ==
    IF sandboxInstance = 0 \/ paramsRaises(r) \/ ~sb[sandboxInstance].handle
        THEN /\ rq' = answered(r, 500, "none")
             /\ UNCHANGED <<sb, retryVars>>
    ELSE IF missing(r, "code")
        THEN /\ rq' = answered(r, 400, "none")
             /\ UNCHANGED <<sb, retryVars>>
    ELSE /\ sb' = updateActivity(sandboxInstance)
         /\ rq' = [r EXCEPT !.pc = "executing", !.target = sandboxInstance]
         /\ retryStarted

\* handleExecute, up to the await of withRetry
handleExecute(r) ==
    IF sandboxInstance = 0 \/ paramsRaises(r)
        THEN /\ rq' = answered(r, 500, "none")
             /\ UNCHANGED <<sb, retryVars>>
    ELSE IF missing(r, "code")
        THEN /\ rq' = answered(r, 400, "none")
             /\ UNCHANGED <<sb, retryVars>>
    ELSE IF ~sb[sandboxInstance].handle
        THEN /\ rq' = [answered(r, 200, "false") EXCEPT
                          !.target = sandboxInstance, !.threw = TRUE]
             /\ UNCHANGED <<sb, retryVars>>
    ELSE /\ sb' = updateActivity(sandboxInstance)
         /\ rq' = [r EXCEPT !.pc = "executing", !.target = sandboxInstance]
         /\ retryStarted

\* handleUpload, up to the await of uploadFile
handleUpload(r, files) ==
    IF sandboxInstance = 0 \/ paramsRaises(r)
        THEN /\ rq' = answered(r, 500, "none")
             /\ UNCHANGED sb
    ELSE IF missing(r, "local_path")
        THEN /\ rq' = answered(r, 400, "none")
             /\ UNCHANGED sb
    ELSE \E res \in fuzzyFindFile(files, resolve(r.parameters.local_path)) :
             LET looked == [r EXCEPT !.fsOps = TRUE]
                 fileName == posixBasename(res.matchedPath)
                 rawSandboxPath ==
                     IF falsy(r.parameters.sandbox_path)
                         THEN defaultInputPrefix \o fileName
                     ELSE r.parameters.sandbox_path
                 sanitized == sanitizeSandboxPath(rawSandboxPath)
             IN  IF ~res.found \/ res.kind # "file"
                     THEN /\ rq' = answered(looked, 200, "false")
                          /\ UNCHANGED sb
                 ELSE IF ~validSandboxPath(sanitized)
                     THEN /\ rq' = answered(looked, 200, "false")
                          /\ UNCHANGED sb
                 ELSE IF ~sb[sandboxInstance].handle
                     THEN /\ rq' = [answered(looked, 200, "false") EXCEPT
                                       !.target = sandboxInstance, !.threw = TRUE]
                          /\ UNCHANGED sb
                 ELSE /\ sb' = updateActivity(sandboxInstance)
                      /\ rq' = [looked EXCEPT !.pc = "uploading",
                                   !.target = sandboxInstance,
                                   !.matched = res.matchedPath,
                                   !.fuzzyMatch = res.fuzzyMatch,
                                   !.sanitized = sanitized,
                                   !.pathWasSanitized =
                                       (sanitized # rawSandboxPath)]

\* a handleDownload that validates the sanitized path and hands the adapter
\* the requested one
handleDownloadRequestedPath(r) ==
    IF sandboxInstance = 0 \/ paramsRaises(r)
        THEN /\ rq' = answered(r, 500, "none")
             /\ UNCHANGED sb
    ELSE IF missing(r, "sandbox_path") \/ missing(r, "local_path")
        THEN /\ rq' = answered(r, 400, "none")
             /\ UNCHANGED sb
    ELSE IF ~sb[sandboxInstance].handle
        THEN /\ rq' = [answered(r, 200, "false") EXCEPT
                          !.target = sandboxInstance, !.threw = TRUE]
             /\ UNCHANGED sb
    ELSE /\ sb' = updateActivity(sandboxInstance)
         /\ rq' = [r EXCEPT !.pc = "downloading",
                      !.target = sandboxInstance,
                      !.matched = resolve(r.parameters.local_path),
                      !.sanitized = r.parameters.sandbox_path]

\* handleDownload, up to the await of downloadFile
handleDownload(r) ==
    IF sandboxInstance = 0 \/ paramsRaises(r)
        THEN /\ rq' = answered(r, 500, "none")
             /\ UNCHANGED sb
    ELSE IF missing(r, "sandbox_path") \/ missing(r, "local_path")
        THEN /\ rq' = answered(r, 400, "none")
             /\ UNCHANGED sb
    ELSE IF ~validSandboxPath(sanitizeSandboxPath(r.parameters.sandbox_path))
        THEN /\ rq' = answered(r, 200, "false")
             /\ UNCHANGED sb
    ELSE IF ~sb[sandboxInstance].handle
        THEN /\ rq' = [answered(r, 200, "false") EXCEPT
                          !.target = sandboxInstance, !.threw = TRUE]
             /\ UNCHANGED sb
    ELSE /\ sb' = updateActivity(sandboxInstance)
         /\ rq' = [r EXCEPT !.pc = "downloading",
                      !.target = sandboxInstance,
                      !.matched = resolve(r.parameters.local_path),
                      !.sanitized = sanitizeSandboxPath(r.parameters.sandbox_path),
                      !.pathWasSanitized =
                          (sanitizeSandboxPath(r.parameters.sandbox_path)
                               # r.parameters.sandbox_path)]

\* handleCheckFile
handleCheckFile(r, files) ==
    IF paramsRaises(r) THEN rq' = answered(r, 500, "none")
    ELSE IF missing(r, "path") THEN rq' = answered(r, 400, "none")
    ELSE rq' = answered([r EXCEPT !.fsOps = TRUE], 200, "true")

\* the request handler of http.createServer, from the body's last chunk up
\* to the response or to its first await of the sandbox
Receive(s, req, files) ==
    /\ rq.pc = "none"
    /\ nRequests < MaxRequests
    /\ ts[s] = "listening"
    /\ nRequests' = nRequests + 1
    /\ LET r == [NoRequest EXCEPT !.server = s, !.path = req.path,
                    !.method = req.method, !.body = req.body,
                    !.parameters = req.parameters]
       IN  IF req.method = "OPTIONS"
               THEN rq' = answered(r, 204, "none") /\ UNCHANGED <<sb, retryVars>>
           ELSE IF req.path = "/execute" /\ req.method = "POST"
               THEN handleExecute(r)
           ELSE IF req.path = "/upload" /\ req.method = "POST"
               THEN handleUpload(r, files) /\ UNCHANGED retryVars
           ELSE IF req.path = "/download" /\ req.method = "POST"
               THEN handleDownload(r) /\ UNCHANGED retryVars
           ELSE IF req.path = "/check-file" /\ req.method = "POST"
               THEN handleCheckFile(r, files) /\ UNCHANGED <<sb, retryVars>>
           ELSE IF req.path = "/health" /\ req.method = "GET"
               THEN rq' = answered(r, 200, "none") /\ UNCHANGED <<sb, retryVars>>
           ELSE rq' = answered(r, 404, "none") /\ UNCHANGED <<sb, retryVars>>
    /\ UNCHANGED <<ts, sandboxInstance>>

\* const language = params.language || "python"
language(r) ==
    IF falsy(r.parameters.language) THEN <<"p", "y", "t", "h", "o", "n">>
    ELSE r.parameters.language

\* what executeCode returns once withRetry has returned or raised, and the
\* response handleExecute makes of it; slow says duration >= executionTimeout
executed(r, exitCode, slow) ==
    IF rPc' = "returned"
        THEN answered(r, 200, IF exitCode = 0 THEN "true" ELSE "false")
    ELSE IF rPc' = "thrown"
        THEN [answered(r, 200, "false") EXCEPT
                 !.timeout = includes(rThrown'.message,
                                      <<"t", "i", "m", "e", "o", "u", "t">>) \/ slow]
    ELSE r

\* executeOnce: the sandbox command resolves with an exit code
ExecRunExits(exitCode) ==
    /\ rq.pc = "executing"
    /\ sb[rq.target].handle
    /\ language(rq) \in SupportedLanguages
    /\ InvokeReturns
    /\ rq' = executed([rq EXCEPT !.runs = @ + 1, !.sandboxOps = TRUE], exitCode, FALSE)
    /\ UNCHANGED <<sb, ts, sandboxInstance, nRequests>>

\* executeOnce: files.write (ran = FALSE) or the sandbox command rejects
ExecRunRaises(error, ran, slow) ==
    /\ rq.pc = "executing"
    /\ sb[rq.target].handle
    /\ language(rq) \in SupportedLanguages
    /\ InvokeRaises(error)
    /\ rq' = executed([rq EXCEPT !.runs = @ + (IF ran THEN 1 ELSE 0),
                          !.sandboxOps = TRUE], 1, slow)
    /\ UNCHANGED <<sb, ts, sandboxInstance, nRequests>>

\* executeOnce: the local timer rejects before the sandbox command settles
ExecTimerFires ==
    /\ rq.pc = "executing"
    /\ sb[rq.target].handle
    /\ language(rq) \in SupportedLanguages
    /\ InvokeRaises([ExecutionTimeout EXCEPT !.id = rInvocations + 1])
    /\ rq' = executed([rq EXCEPT !.runs = @ + 1, !.sandboxOps = TRUE], 1, TRUE)
    /\ UNCHANGED <<sb, ts, sandboxInstance, nRequests>>

\* executeOnce: buildCommand has no case for the language
ExecUnsupported(slow) ==
    /\ rq.pc = "executing"
    /\ sb[rq.target].handle
    /\ language(rq) \notin SupportedLanguages
    /\ InvokeRaises([UnsupportedLanguage EXCEPT !.id = rInvocations + 1])
    /\ rq' = executed(rq, 1, slow)
    /\ UNCHANGED <<sb, ts, sandboxInstance, nRequests>>

\* executeOnce: this.sandbox is null, the adapter was cleaned up meanwhile
ExecSandboxGone(slow) ==
    /\ rq.pc = "executing"
    /\ ~sb[rq.target].handle
    /\ InvokeRaises([SandboxNotInitialized EXCEPT !.id = rInvocations + 1])
    /\ rq' = executed(rq, 1, slow)
    /\ UNCHANGED <<sb, ts, sandboxInstance, nRequests>>

\* the sleep before the next attempt is over
ExecWake ==
    /\ rq.pc = "executing"
    /\ Wake
    /\ rq' = executed(rq, 1, FALSE)
    /\ UNCHANGED <<sb, ts, sandboxInstance, nRequests>>

\* uploadFile settled: the response of handleUpload
UploadSettles(ok) ==
    /\ rq.pc = "uploading"
    /\ rq' = IF ok
                 THEN [answered(rq, 200, "true") EXCEPT
                          !.sandboxOps = TRUE,
                          !.sandbox_path = rq.sanitized,
                          !.path_sanitized = rq.pathWasSanitized,
                          !.local_path = rq.matched,
                          !.fuzzy_match = rq.fuzzyMatch,
                          !.original_path = IF rq.fuzzyMatch
                                                THEN rq.parameters.local_path
                                            ELSE undefined]
             ELSE answered(rq, 200, "false")
    /\ UNCHANGED <<sb, ts, sandboxInstance, nRequests, retryVars>>

\* downloadFile settled: the response of handleDownload
DownloadSettles(ok) ==
    /\ rq.pc = "downloading"
    /\ rq' = IF ok
                 THEN [answered(rq, 200, "true") EXCEPT
                          !.sandboxOps = TRUE, !.fsOps = TRUE,
                          !.sandbox_path = rq.sanitized,
                          !.path_sanitized = rq.pathWasSanitized,
                          !.local_path = rq.parameters.local_path]
             ELSE [answered(rq, 200, "false") EXCEPT !.fsOps = TRUE]
    /\ UNCHANGED <<sb, ts, sandboxInstance, nRequests, retryVars>>

(***************************************************************************)
(* The inputs of the server specification.                                 *)
(***************************************************************************)

Paths == {"/execute", "/upload", "/download", "/check-file", "/health", "/other"}

Methods == {"POST", "GET", "OPTIONS"}

Codes == {undefined, <<>>, <<"x">>}

Languages == {undefined, <<"c", "o", "b", "o", "l">>}

RequestedLocalPaths ==
    {undefined, <<>>,
     <<"r", "e", "p", "o", "r", "t">>,
     <<"r", "e", "p", "o", "r", "t", ".", "m", "d">>,
     <<"r", "e", "p", "o">>}

RequestedSandboxPaths ==
    {undefined, <<>>,
     <<"/", "h", "o", "m", "e", "/", "u", "s", "e", "r", "/", "o", "u", "t", "p", "u", "t",
       "/", "x">>,
     <<"/", "t", "m", "p", "/", ".", ".", "/", "x">>}

\* the parameters a request to the path may carry; the handler of a path
\* reads no other property
ParametersOf(path) ==
    {NoParameters} \cup
    CASE path = "/execute" ->
             {[NoParameters EXCEPT !.given = TRUE, !.code = c, !.language = l] :
                  c \in Codes, l \in Languages}
      [] path \in {"/upload", "/download"} ->
             {[NoParameters EXCEPT !.given = TRUE, !.local_path = l, !.sandbox_path = p] :
                  l \in RequestedLocalPaths, p \in RequestedSandboxPaths}
      [] path = "/check-file" ->
             {[NoParameters EXCEPT !.given = TRUE, !.path = l] :
                  l \in RequestedLocalPaths}
      [] OTHER -> {[NoParameters EXCEPT !.given = TRUE]}

\* a POST carries any of the bodies; the handler reads no body of a GET or
\* an OPTIONS request before it answers
Requests ==
    [path : Paths, method : {"POST"}, body : BodyTexts \ {"object"},
     parameters : {NoParameters}]
    \cup UNION {[path : {p}, method : {"POST"}, body : {"object"},
                 parameters : ParametersOf(p)] : p \in Paths}
    \cup [path : Paths, method : Methods \ {"POST"}, body : {"empty"},
          parameters : {NoParameters}]

NoFiles == [n \in LocalNames |-> "none"]

\* a directory that holds the files report.md and report.py
TwoFiles == [n \in LocalNames |-> IF Len(n) = 9 THEN "file" ELSE "none"]

\* the local directories a request is received in: an empty one, and for a
\* handler that looks for a local file also one with files
LocalDirsOf(req) ==
    IF /\ req.path \in {"/upload", "/check-file"}
       /\ req.body = "object"
       /\ req.parameters.given
       /\ ~falsy(IF req.path = "/upload" THEN req.parameters.local_path
                 ELSE req.parameters.path)
        THEN {NoFiles, TwoFiles}
    ELSE {NoFiles}

\* the local paths and the requests of the upload specification: every
\* request carries a local_path, with or without a sandbox_path
RequestedUploadPaths ==
    {<<"r", "e", "p", "o", "r", "t">>,
     <<".", "/", "r", "e", "p", "o", "r", "t">>,
     <<"r", "e", "p", "o", "r", "t", ".", "m", "d">>,
     <<"/", "w", "/", "r", "e", "p", "o", "r", "t", ".", "p", "y">>,
     <<"r", "e", "p", "o">>,
     <<"r", "e", "a", "d", "m", "e">>}

UploadRequests ==
    [path : {"/upload"}, method : {"POST"}, body : {"object"},
     parameters : {[NoParameters EXCEPT !.given = TRUE, !.local_path = l,
                                        !.sandbox_path = p] :
                       l \in RequestedUploadPaths, p \in RequestedSandboxPaths}]

\* sendResponse has run and the handler's promise settles: the request, the
\* response and what withRetry recorded are dropped; the loop variable is
\* left as the last call left it, it is the next call that initialises it
HandlerReturns ==
    /\ rq.pc = "answered"
    /\ rq' = NoRequest
    /\ rPc' = "idle"
    /\ rRaised' = <<>>
    /\ rInvocations' = 0
    /\ rLastError' = NoAttemptsMade
    /\ rThrown' = NoError
    /\ rOnRetry' = 0
    /\ UNCHANGED <<rOptions, rAttempt, sb, ts, sandboxInstance, nRequests>>

(***************************************************************************)
(* E2BSandbox.uploadFile and downloadFile.  A file is the sequence of its  *)
(* bytes, a JavaScript string the sequence of its characters, each         *)
(* character written as the bytes of its UTF-8 encoding.  One byte of the  *)
(* model stands for one megabyte where sizes are compared.                 *)
(***************************************************************************)

MaxFileLen == 3

MaxTransfers == 3

\* config.validation.maxFileSizeMB, scaled down to the files of the model
maxFileSizeMB == 2

\* the bytes of the local files: "a", and 0xFF, which no UTF-8 text holds
Bytes == {97, 255}

RECURSIVE FilesOfLen(_)
FilesOfLen(n) ==
    IF n = 0 THEN {<<>>}
    ELSE {<<b>> \o f : b \in Bytes, f \in FilesOfLen(n - 1)}

Contents == UNION {FilesOfLen(n) : n \in 0..MaxFileLen}

\* no file at the path
absent == <<-1>>

\* U+FFFD, what the decoder puts for bytes that are no UTF-8
ReplacementCharacter == <<239, 191, 189>>

continuation(b) == b >= 128 /\ b <= 191

\* buffer.toString("utf-8"), as fs.readFile(path, "utf-8") and files.read
\* do it: never an error, every maximal ill-formed part becomes U+FFFD.  Of
\* the multi-byte lead bytes the model needs the one of U+FFFD only (0xEF).
RECURSIVE utf8Decode(_)
utf8Decode(bs) ==
    IF bs = <<>> THEN <<>>
    ELSE IF bs[1] < 128
        THEN << <<bs[1]>> >> \o utf8Decode(Tail(bs))
    ELSE IF bs[1] = 239 /\ Len(bs) >= 2 /\ continuation(bs[2])
        THEN IF Len(bs) >= 3 /\ continuation(bs[3])
                 THEN <<SubSeq(bs, 1, 3)>> \o utf8Decode(SubSeq(bs, 4, Len(bs)))
             ELSE <<ReplacementCharacter>> \o utf8Decode(SubSeq(bs, 3, Len(bs)))
    ELSE <<ReplacementCharacter>> \o utf8Decode(Tail(bs))

\* Buffer.from(string, "utf-8"), as files.write and fs.writeFile(.., "utf-8")
\* do it
RECURSIVE utf8Encode(_)
utf8Encode(chars) ==
    IF chars = <<>> THEN <<>>
    ELSE chars[1] \o utf8Encode(Tail(chars))

\* the characters of base64 text: 0..63 the digits, then "=" and "\n"
Pad == 64

NewLine == 65

isDigit64(c) == c < Pad

\* what the base64 command prints for a file
RECURSIVE base64(_)
base64(bs) ==
    IF Len(bs) = 0 THEN <<NewLine>>
    ELSE IF Len(bs) = 1
        THEN <<bs[1] \div 4, (bs[1] % 4) * 16, Pad, Pad, NewLine>>
    ELSE IF Len(bs) = 2
        THEN <<bs[1] \div 4, (bs[1] % 4) * 16 + (bs[2] \div 16),
               (bs[2] % 16) * 4, Pad, NewLine>>
    ELSE <<bs[1] \div 4, (bs[1] % 4) * 16 + (bs[2] \div 16),
           (bs[2] % 16) * 4 + (bs[3] \div 64), bs[3] % 64>>
             \o base64(SubSeq(bs, 4, Len(bs)))

RECURSIVE digitsToBytes(_)
digitsToBytes(d) ==
    IF Len(d) < 2 THEN <<>>
    ELSE IF Len(d) = 2 THEN <<d[1] * 4 + (d[2] \div 16)>>
    ELSE IF Len(d) = 3
        THEN <<d[1] * 4 + (d[2] \div 16), (d[2] % 16) * 16 + (d[3] \div 4)>>
    ELSE <<d[1] * 4 + (d[2] \div 16), (d[2] % 16) * 16 + (d[3] \div 4),
           (d[3] % 4) * 64 + d[4]>> \o digitsToBytes(SubSeq(d, 5, Len(d)))

\* Buffer.from(stdout, "base64"): what is no digit is skipped
bufferFromBase64(text) == digitsToBytes(SelectSeq(text, isDigit64))

binaryExtensions ==
    {<<".", "p", "n", "g">>, <<".", "j", "p", "g">>, <<".", "j", "p", "e", "g">>,
     <<".", "g", "i", "f">>, <<".", "w", "e", "b", "p">>, <<".", "p", "d", "f">>,
     <<".", "z", "i", "p">>, <<".", "t", "a", "r">>, <<".", "g", "z">>,
     <<".", "b", "i", "n">>, <<".", "e", "x", "e">>, <<".", "i", "c", "o">>,
     <<".", "s", "v", "g">>}

isBinary(localPath) == toLowerCase(extname(localPath)) \in binaryExtensions

\* stats.size / (1024 * 1024)
fileSizeMB(content) == Len(content)

\* the local files a caller uploads, and where it downloads to
SourcePaths == {<<"a", ".", "c", "s", "v">>, <<"a", ".", "p", "n", "g">>}

TargetPaths == {<<"b", ".", "c", "s", "v">>, <<"b", ".", "P", "N", "G">>}

LocalPaths == SourcePaths \cup TargetPaths

SandboxPaths == {<<"/", "t", "m", "p", "/", "f">>}

NoTransfer ==
    [n |-> 0, op |-> "none", localPath |-> <<>>, sandboxPath |-> <<>>,
     error |-> "none", before |-> absent, source |-> <<>>]

\* the adapter the transfers go through
Adapter == 1

\* the record of a call that has settled
settled(op, localPath, sandboxPath, error, before) ==
    [xf EXCEPT !.n = @ + 1, !.op = op, !.localPath = localPath,
               !.sandboxPath = sandboxPath, !.error = error, !.before = before]

\* uploadFile: access, stat and the size check, readFile as UTF-8 text (it
\* does not raise on bytes that are no text, so the base64 branch is never
\* taken), mkdir, files.write (written: it resolves), chmod
uploadFile(localPath, sandboxPath, written) ==
    /\ xf.n < MaxTransfers
    /\ LET end(error) == settled("upload", localPath, sandboxPath, error,
                                 sandboxFs[sandboxPath])
       IN  IF ~sb[Adapter].handle
               THEN /\ xf' = end("not initialized")
                    /\ UNCHANGED <<sb, sandboxFs>>
           ELSE /\ sb' = updateActivity(Adapter)
                /\ IF localFs[localPath] = absent
                       THEN xf' = end("not found") /\ UNCHANGED sandboxFs
                   ELSE IF fileSizeMB(localFs[localPath]) > maxFileSizeMB
                       THEN xf' = end("too large") /\ UNCHANGED sandboxFs
                   ELSE IF ~written
                       THEN xf' = end("failed") /\ UNCHANGED sandboxFs
                   ELSE /\ sandboxFs' = [sandboxFs EXCEPT ![sandboxPath] =
                                            utf8Encode(utf8Decode(localFs[localPath]))]
                        /\ xf' = [end("none") EXCEPT !.source = localPath]
    /\ UNCHANGED localFs

\* downloadFile: mkdir of the local directory; for a binary extension the
\* output of the base64 command decoded, else files.read written as UTF-8
\* text (read: the sandbox call resolves); the size is not looked at
downloadFile(sandboxPath, localPath, read) ==
    /\ xf.n < MaxTransfers
    /\ LET end(error) == settled("download", localPath, sandboxPath, error,
                                 localFs[localPath])
       IN  IF ~sb[Adapter].handle
               THEN /\ xf' = end("not initialized")
                    /\ UNCHANGED <<sb, localFs>>
           ELSE /\ sb' = updateActivity(Adapter)
                /\ IF sandboxFs[sandboxPath] = absent \/ ~read
                       THEN xf' = end("failed") /\ UNCHANGED localFs
                   ELSE /\ localFs' = [localFs EXCEPT ![localPath] =
                               IF isBinary(localPath)
                                   THEN bufferFromBase64(base64(sandboxFs[sandboxPath]))
                               ELSE utf8Encode(utf8Decode(sandboxFs[sandboxPath]))]
                        /\ xf' = end("none")
    /\ UNCHANGED sandboxFs

(***************************************************************************)
(* The command line: validateTaskInputs, the interactive loop of runAgent  *)
(* and runAgentWithTask.  A task is what validation reads of its text: its *)
(* length, whether it holds control characters, and the file paths         *)
(* extractFilePaths finds in it, each with what fs.stat says of it.        *)
(***************************************************************************)

MaxTasks == 2

MaxTaskFiles == 1

\* config.maxTaskLength, scaled down to the tasks of the model
maxTaskLength == 5

TaskLengths == {0, 1, maxTaskLength, maxTaskLength + 1}

FileSizes == {1, maxFileSizeMB, maxFileSizeMB + 1}

\* a path of the task: stat is "file", "dir", "none" (ENOENT) or "denied"
\* (EACCES); isOutput says the task names it after "output:" or "save to"
FileRefs ==
    [stat : {"file"}, size : FileSizes, allowedExtension : BOOLEAN,
     dotdot : BOOLEAN, isOutput : BOOLEAN]
    \cup [stat : {"dir", "none", "denied"}, size : {0}, allowedExtension : {TRUE},
          dotdot : BOOLEAN, isOutput : BOOLEAN]

RECURSIVE SeqsUpTo(_, _)
SeqsUpTo(S, n) ==
    IF n = 0 THEN {<<>>}
    ELSE SeqsUpTo(S, n - 1) \cup
         {Append(q, x) : q \in {p \in SeqsUpTo(S, n - 1) : Len(p) = n - 1}, x \in S}

\* the lines the prompt can return: the commands, and the tasks
Commands == {"exit", "quit", "clear", "reset", "status"}

Tasks ==
    [kind : {"task"}, length : TaskLengths \ {0}, control : BOOLEAN,
     files : SeqsUpTo(FileRefs, MaxTaskFiles)]
    \cup [kind : {"task"}, length : {0}, control : {FALSE}, files : {<<>>}]

NoTask == [kind |-> "none", length |-> 0, control |-> FALSE, files |-> <<>>]

CommandLines == {[NoTask EXCEPT !.kind = c] : c \in Commands}

\* createResult()
createResult == [valid |-> TRUE, errors |-> <<>>, warnings |-> <<>>]

RECURSIVE concatAll(_)
concatAll(seqs) ==
    IF seqs = <<>> THEN <<>> ELSE seqs[1] \o concatAll(Tail(seqs))

\* mergeValidationResults(...results)
mergeValidationResults(results) ==
    LET errors == concatAll([i \in 1..Len(results) |-> results[i].errors])
        warnings == concatAll([i \in 1..Len(results) |-> results[i].warnings])
    IN  [valid |-> errors = <<>>, errors |-> errors, warnings |-> warnings]

\* validateTaskInput(task, config)
validateTaskInput(task) ==
    IF task.length = 0
        THEN [valid |-> FALSE, errors |-> <<"Task description is empty">>,
              warnings |-> <<>>]
    ELSE LET tooLong == task.length > maxTaskLength
             long == ~tooLong /\ task.length * 10 > maxTaskLength * 8
         IN  [valid |-> ~tooLong,
              errors |-> IF tooLong THEN <<"Task too long">> ELSE <<>>,
              warnings |-> (IF long THEN <<"Long task">> ELSE <<>>)
                             \o (IF task.control
                                     THEN <<"Task contains control characters">>
                                 ELSE <<>>)]

\* validateFilePath(filePath, config), for a path that is not empty
validateFilePath(f) ==
    LET dotdot == IF f.dotdot THEN <<"Path contains '..'">> ELSE <<>>
    IN  IF f.stat = "none"
            THEN [valid |-> FALSE, errors |-> <<"File not found">>, warnings |-> dotdot]
        ELSE IF f.stat = "denied"
            THEN [valid |-> FALSE, errors |-> <<"Permission denied">>, warnings |-> dotdot]
        ELSE IF f.stat = "dir"
            THEN [valid |-> FALSE, errors |-> <<"Path is not a file">>, warnings |-> dotdot]
        ELSE LET tooLarge == f.size > maxFileSizeMB
                 large == ~tooLarge /\ f.size * 10 > maxFileSizeMB * 8
             IN  [valid |-> ~tooLarge,
                  errors |-> IF tooLarge THEN <<"File too large">> ELSE <<>>,
                  warnings |-> dotdot
                                 \o (IF large THEN <<"Large file">> ELSE <<>>)
                                 \o (IF f.allowedExtension THEN <<>>
                                     ELSE <<"Unusual file extension">>)]

\* the result of an output path: its errors that include "not found" dropped
adjustedResult(result) ==
    LET errors == SelectSeq(result.errors, LAMBDA e : e # "File not found")
    IN  [valid |-> errors = <<>>, errors |-> errors, warnings |-> result.warnings]

\* validateTaskFilePaths(task, config): the input results, then the output
\* results
validateTaskFilePaths(task) ==
    LET isInput(f) == ~f.isOutput
        isOutput(f) == f.isOutput
        inputs == SelectSeq(task.files, isInput)
        outputs == SelectSeq(task.files, isOutput)
    IN  IF task.files = <<>> THEN createResult
        ELSE mergeValidationResults(
                 [i \in 1..Len(inputs) |-> validateFilePath(inputs[i])]
                 \o [i \in 1..Len(outputs) |-> adjustedResult(validateFilePath(outputs[i]))])

\* validateTaskInputs(task, config)
validateTaskInputs(task) ==
    mergeValidationResults(<<validateTaskInput(task), validateTaskFilePaths(task)>>)

\* a display that lets every task pass
displayOnly(validation) == TRUE

\* displayValidationResult(validation, c): what it returns
displayValidationResult(validation) == validation.valid

NoCli ==
    [mode |-> "none", pc |-> "off", task |-> NoTask, validation |-> createResult,
     rejected |-> FALSE, work |-> {}, session |-> FALSE,
     sessionInitialized |-> FALSE, tunnelResult |-> FALSE, error |-> FALSE,
     nTasks |-> 0]

\* runAgent(): keys and config loaded, the first prompt is shown
RunAgent ==
    /\ cli.pc = "off"
    /\ cli' = [cli EXCEPT !.mode = "interactive", !.pc = "prompt"]

\* one turn of the loop, from the answer of the Task prompt up to its first
\* await of the session manager or to the next prompt
Question(line) ==
    /\ cli.mode = "interactive"
    /\ cli.pc = "prompt"
    /\ cli.nTasks < MaxTasks
    /\ LET turn == [cli EXCEPT !.nTasks = @ + 1, !.task = line, !.work = {},
                               !.validation = createResult, !.rejected = FALSE]
           validation == validateTaskInputs(line)
       IN  IF line.kind \in {"exit", "quit"} \/ (line.kind = "task" /\ line.length = 0)
               THEN cli' = [turn EXCEPT !.pc = "exiting"]
           ELSE IF line.kind \in {"clear", "status"}
               THEN cli' = turn
           ELSE IF line.kind = "reset"
               THEN cli' = [turn EXCEPT !.pc = "resetting"]
           ELSE IF ~displayValidationResult(validation)
               THEN cli' = [turn EXCEPT !.validation = validation, !.rejected = TRUE]
           ELSE cli' = [turn EXCEPT !.validation = validation, !.pc = "context"]

\* sessionManager.reset() settled
ResetSettles(ok) ==
    /\ cli.pc = "resetting"
    /\ cli' = [cli EXCEPT !.pc = "prompt", !.session = IF ok THEN TRUE ELSE @]

\* the Context prompt is answered: getOrCreateSession is called unless a
\* session is held, else runTaskWithSession
ContextAnswered ==
    /\ cli.pc = "context"
    /\ cli' = IF ~cli.sessionInitialized \/ ~cli.session
                  THEN [cli EXCEPT !.pc = "session",
                                   !.work = @ \cup {"getOrCreateSession"}]
              ELSE [cli EXCEPT !.pc = "running", !.work = @ \cup {"task"}]

\* getOrCreateSession settled; created: it made a sandbox, a tool server and
\* a tunnel; lost: the message of its error names the sandbox or the tunnel
SessionSettles(ok, created, lost) ==
    /\ cli.pc = "session"
    /\ LET made == [cli EXCEPT !.work = IF created
                                            THEN @ \cup {"sandbox", "toolServer", "tunnel"}
                                        ELSE @]
       IN  cli' = IF ok
                      THEN [made EXCEPT !.session = TRUE, !.sessionInitialized = TRUE,
                                        !.pc = "running", !.work = @ \cup {"task"}]
                  ELSE IF lost
                      THEN [made EXCEPT !.session = FALSE, !.sessionInitialized = FALSE,
                                        !.pc = "prompt"]
                  ELSE [made EXCEPT !.pc = "prompt"]

\* runTaskWithSession settled
TaskSettles(ok, lost) ==
    /\ cli.pc = "running"
    /\ cli' = IF ~ok /\ lost
                  THEN [cli EXCEPT !.session = FALSE, !.sessionInitialized = FALSE,
                                   !.pc = "prompt"]
              ELSE [cli EXCEPT !.pc = "prompt"]

\* the cleanup of the exit command settled; the loop is left
Exited ==
    /\ cli.pc = "exiting"
    /\ cli' = [cli EXCEPT !.pc = "exited"]

\* runAgentWithTask(taskDescription, context), up to its first await after
\* the validation
RunAgentWithTask(task, apiKey) ==
    /\ cli.pc = "off"
    /\ LET call == [cli EXCEPT !.mode = "task", !.nTasks = @ + 1, !.task = task]
           validation == validateTaskInputs(task)
       IN  IF ~apiKey
               THEN cli' = [call EXCEPT !.pc = "threw"]
           ELSE IF ~displayValidationResult(validation)
               THEN cli' = [call EXCEPT !.validation = validation, !.rejected = TRUE,
                                        !.pc = "threw"]
           ELSE cli' = [call EXCEPT !.validation = validation, !.pc = "initializing",
                                    !.work = {"sandbox"}]

\* sandbox.initialize() settled; then toolServer.start()
InitializeSettles(ok) ==
    /\ cli.pc = "initializing"
    /\ cli' = IF ok THEN [cli EXCEPT !.pc = "starting", !.work = @ \cup {"toolServer"}]
              ELSE [cli EXCEPT !.pc = "finally", !.error = TRUE]

\* toolServer.start() settled; then setupTunnel
ServerStarted(ok) ==
    /\ cli.pc = "starting"
    /\ cli' = IF ok THEN [cli EXCEPT !.pc = "tunneling", !.work = @ \cup {"tunnel"}]
              ELSE [cli EXCEPT !.pc = "finally", !.error = TRUE]

\* setupTunnel settled; then the health checks and the stream of the agent
TunnelSettles(ok) ==
    /\ cli.pc = "tunneling"
    /\ cli' = IF ok THEN [cli EXCEPT !.pc = "streaming", !.tunnelResult = TRUE,
                                     !.work = @ \cup {"task"}]
              ELSE [cli EXCEPT !.pc = "finally", !.error = TRUE]

\* the local health check failed, or the stream ended, with or without error
StreamSettles(ok) ==
    /\ cli.pc = "streaming"
    /\ cli' = [cli EXCEPT !.pc = "finally", !.error = ~ok]

\* finally: stopTunnel if there is a tunnel, toolServer.stop, sandbox.cleanup
\* (stopped: neither raises)
Finally(stopped) ==
    /\ cli.pc = "finally"
    /\ cli' = [cli EXCEPT !.pc = IF cli.error \/ ~stopped THEN "threw" ELSE "returned",
                          !.tunnelResult = FALSE]

\* SIGINT during runAgent: cleanup, then process.exit(0)
Sigint ==
    /\ cli.mode = "interactive"
    /\ cli.pc \notin {"off", "exited"}
    /\ cli' = [cli EXCEPT !.pc = "exited"]

(***************************************************************************)
(* E2BSandbox.initialize, called any number of times on one adapter.       *)
(*                                                                         *)
(* A caller is an activation that awaits initialize(): the command line    *)
(* calls it and then E2BToolServer.start calls it again; nothing in the    *)
(* adapter keeps a second call from being made while the first is awaited. *)
(* An action is the code between two awaits that wait for I/O              *)
(* (Sandbox.create, the retry sleep, the commands of setupEnvironment).    *)
(* The sandboxes the service made for the adapter are numbered in the      *)
(* order it made them; 0 stands for null.                                  *)
(***************************************************************************)

MaxInitializeCalls == 3

Callers == {1, 2}

\* DEFAULT_RETRY_OPTIONS.sandbox, with the delays left out
sandboxRetry ==
    [maxAttempts |-> 3,
     retryableErrors |->
         << <<"E", "C", "O", "N", "N", "R", "E", "S", "E", "T">>,
            <<"E", "T", "I", "M", "E", "D", "O", "U", "T">>,
            <<"E", "C", "O", "N", "N", "R", "E", "F", "U", "S", "E", "D">>,
            <<"5", "0", "3">>,
            <<"t", "i", "m", "e", "o", "u", "t">>,
            <<"n", "e", "t", "w", "o", "r", "k">> >>,
     nonRetryableErrors |-> <<>>]

\* what Sandbox.create may reject with: a transient error and another one
CreateErrors ==
    [isError : {TRUE}, name : {ErrorName}, id : {0},
     message : { <<"n", "e", "t", "w", "o", "r", "k", " ", "d", "o", "w", "n">>,
                 <<"u", "n", "a", "u", "t", "h", "o", "r", "i", "z", "e", "d">> }]

\* a new E2BSandbox, nobody calling it: found is the guard's outcome for
\* the caller's last call
NoInitialize ==
    [sandbox |-> 0, sandboxId |-> 0, initTime |-> 0, lastActivityTime |-> 0,
     created |-> 0, nCalls |-> 0,
     pc |-> [c \in Callers |-> "idle"],
     attempt |-> [c \in Callers |-> 0],
     found |-> [c \in Callers |-> FALSE]]

\* if (this.sandbox)
initialized == ini.sandbox # 0

\* initialize() is called: it returns at once when this.sandbox is set, else
\* withRetry is entered and Sandbox.create("base") is awaited
Initialize(c) ==
    /\ ini.pc[c] \in {"idle", "returned", "thrown"}
    /\ ini.nCalls < MaxInitializeCalls
    /\ IF initialized
           THEN ini' = [ini EXCEPT !.lastActivityTime = now,
                                   !.nCalls = @ + 1,
                                   !.found[c] = TRUE,
                                   !.pc[c] = "returned"]
           ELSE ini' = [ini EXCEPT !.nCalls = @ + 1,
                                   !.found[c] = FALSE,
                                   !.attempt[c] = 0,
                                   !.pc[c] = "creating"]
    /\ UNCHANGED now

\* Sandbox.create settled.  Created: the service made a sandbox, this.sandbox,
\* sandboxId and the two times are assigned, and setupEnvironment awaits its
\* first command.  Rejected: the catch block of withRetry, up to the throw or
\* the sleep
CreateSettles(c, created, error) ==
    /\ ini.pc[c] = "creating"
    /\ IF created
           THEN ini' = [ini EXCEPT !.created = @ + 1,
                                   !.sandbox = ini.created + 1,
                                   !.sandboxId = ini.created + 1,
                                   !.initTime = now,
                                   !.lastActivityTime = now,
                                   !.pc[c] = "setup"]
           ELSE ini' = [ini EXCEPT !.pc[c] =
                            IF shouldRetry(ini.attempt[c], asError(error), sandboxRetry)
                                THEN "sleeping" ELSE "thrown"]
    /\ UNCHANGED now

\* await sleep(delayMs) resolving: attempt++, and the loop test
InitializeWake(c) ==
    /\ ini.pc[c] = "sleeping"
    /\ ini' = [ini EXCEPT !.attempt[c] = @ + 1,
                          !.pc[c] = IF ini.attempt[c] + 1 < sandboxRetry.maxAttempts
                                        THEN "creating" ELSE "thrown"]
    /\ UNCHANGED now

\* setupEnvironment settled: its commands ran or failed, which is logged and
\* changes nothing in the adapter; initialize() returns
EnvironmentSettles(c) ==
    /\ ini.pc[c] = "setup"
    /\ ini' = [ini EXCEPT !.pc[c] = "returned"]
    /\ UNCHANGED now

\* Date.now() advances
InitializeClock ==
    /\ now < MaxTime
    /\ now' = now + 1
    /\ UNCHANGED ini

(***************************************************************************)
(* The environment variables runAgentWithTask collects for the sandbox     *)
(* (src/examples/e2b_subconscious_repo/src/cli/run.ts).                    *)
(*                                                                         *)
(* Two runs of the command are kept side by side, each with its own        *)
(* process environment and the same configuration.  A name the process     *)
(* environment does not hold has the value undefined; envVars holds        *)
(* undefined for a name it has no property for.                            *)
(***************************************************************************)

Runs == {1, 2}

\* String.prototype.toUpperCase, on the letters the inputs use
upperChar(c) ==
    CASE c = "a" -> "A" [] c = "e" -> "E" [] c = "h" -> "H" [] c = "i" -> "I"
      [] c = "k" -> "K" [] c = "m" -> "M" [] c = "n" -> "N" [] c = "o" -> "O"
      [] c = "p" -> "P" [] c = "t" -> "T" [] c = "y" -> "Y" [] OTHER -> c

toUpperCase(s) == [i \in 1..Len(s) |-> upperChar(s[i])]

\* defaultConfig.environment.sensitivePatterns
sensitivePatterns ==
    << <<"S", "U", "B", "C", "O", "N", "S", "C", "I", "O", "U", "S", "_",
         "A", "P", "I", "_", "K", "E", "Y">>,
       <<"E", "2", "B", "_", "A", "P", "I", "_", "K", "E", "Y">>,
       <<"P", "A", "S", "S", "W", "O", "R", "D">>,
       <<"S", "E", "C", "R", "E", "T">>,
       <<"T", "O", "K", "E", "N">>,
       <<"K", "E", "Y">>,
       <<"A", "P", "I", "_", "K", "E", "Y">> >>

\* the names a process environment may hold
EnvNames ==
    { <<"a", "p", "i", "_", "k", "e", "y">>,
      <<"T", "o", "k", "e", "n">>,
      <<"m", "o", "n", "k", "e", "y">>,
      <<"P", "A", "T", "H">> }

\* the value of a name: not set, the empty string, a text
EnvValues == {undefined, <<>>, <<"v">>}

ProcessEnvs == [EnvNames -> EnvValues]

\* a test of the name as it is written
matchesPatternAsWritten(key) ==
    \E k \in 1..Len(sensitivePatterns) : includes(key, sensitivePatterns[k])

\* sensitivePatterns.some(pattern => key.toUpperCase().includes(pattern.toUpperCase()))
matchesPattern(key) ==
    \E k \in 1..Len(sensitivePatterns) :
        includes(toUpperCase(key), toUpperCase(sensitivePatterns[k]))

\* the loop over Object.entries(process.env) of either branch: a property is
\* set for each entry with a non-empty value that the filter lets through
collect(processEnv, filterSensitive) ==
    [key \in EnvNames |->
        IF /\ processEnv[key] # undefined
           /\ processEnv[key] # <<>>
           /\ ~(filterSensitive /\ matchesPattern(key))
            THEN processEnv[key]
            ELSE undefined]

\* const envVars = {}
NoEnvVars == [key \in EnvNames |-> undefined]

\* Object.keys(envVars).length > 0, which decides whether the task carries
\* environmentVariables
hasProperties(envVars) == \E key \in EnvNames : envVars[key] # undefined

NoEnvironment ==
    [filterSensitive |-> TRUE,
     processEnv |-> [r \in Runs |-> NoEnvVars],
     pc |-> [r \in Runs |-> "off"],
     envVars |-> [r \in Runs |-> NoEnvVars],
     stored |-> [r \in Runs |-> NoEnvVars]]

\* runAgentWithTask of run r, up to the task record: envVars is collected
CollectEnvironment(r) ==
    /\ environment.pc[r] = "start"
    /\ environment' =
           [environment EXCEPT
               !.envVars[r] = collect(environment.processEnv[r],
                                      environment.filterSensitive),
               !.pc[r] = "collected"]

\* if (task.environmentVariables) await sandbox.setEnvironmentVariables(...):
\* the adapter keeps the record as _envVars; without properties the call is
\* not made
SetEnvironmentVariables(r) ==
    /\ environment.pc[r] = "collected"
    /\ environment' =
           [environment EXCEPT
               !.stored[r] = IF hasProperties(environment.envVars[r])
                                 THEN environment.envVars[r] ELSE @,
               !.pc[r] = "set"]

(***************************************************************************)
(* validateSandboxPath (src/examples/e2b_cli/src/utils/retry.ts), with the *)
(* default validation configuration.  A ValidationResult holds the texts   *)
(* of its errors and warnings in the order they were pushed.               *)
(***************************************************************************)

\* the characters String.prototype.trim removes, of those the inputs use
WhiteSpace == {" "}

\* sandboxPath.trim() === ""
trimsToEmpty(s) == \A i \in 1..Len(s) : s[i] \in WhiteSpace

\* "Sandbox path is empty"
SandboxPathIsEmpty ==
    <<"S", "a", "n", "d", "b", "o", "x", " ", "p", "a", "t", "h", " ",
      "i", "s", " ", "e", "m", "p", "t", "y">>

\* `Blocked pattern in path: '${pattern}'`
blockedPatternIn(pattern) ==
    <<"B", "l", "o", "c", "k", "e", "d", " ", "p", "a", "t", "t", "e", "r", "n", " ",
      "i", "n", " ", "p", "a", "t", "h", ":", " ", "'">> \o pattern \o <<"'">>

\* `Path not in allowed directories: ${sandboxPath}. Allowed: ...`, up to the
\* list of the directories, which is the same in every warning
notInAllowedDirectories(sandboxPath) ==
    <<"P", "a", "t", "h", " ", "n", "o", "t", " ", "i", "n", " ",
      "a", "l", "l", "o", "w", "e", "d", " ",
      "d", "i", "r", "e", "c", "t", "o", "r", "i", "e", "s", ":", " ">>
        \o sandboxPath \o <<".">>

\* the errors pushed by the loop over config.blockedPatterns, from pattern k on
RECURSIVE blockedPatternErrors(_, _)
blockedPatternErrors(sandboxPath, k) ==
    IF k > Len(blockedPatterns) THEN <<>>
    ELSE (IF includes(sandboxPath, blockedPatterns[k])
              THEN <<blockedPatternIn(blockedPatterns[k])>> ELSE <<>>)
             \o blockedPatternErrors(sandboxPath, k + 1)

\* a validation that takes a path outside the allowed directories for an error
validateSandboxPathStrict(sandboxPath) ==
    IF Len(sandboxPath) = 0 \/ trimsToEmpty(sandboxPath)
        THEN [valid |-> FALSE, errors |-> <<SandboxPathIsEmpty>>, warnings |-> <<>>]
    ELSE LET errors == blockedPatternErrors(sandboxPath, 1)
                           \o (IF isAllowed(sandboxPath) THEN <<>>
                               ELSE <<notInAllowedDirectories(sandboxPath)>>)
         IN  [valid |-> Len(errors) = 0, errors |-> errors, warnings |-> <<>>]

validateSandboxPath(sandboxPath) ==
    IF Len(sandboxPath) = 0 \/ trimsToEmpty(sandboxPath)
        THEN [valid |-> FALSE, errors |-> <<SandboxPathIsEmpty>>, warnings |-> <<>>]
    ELSE LET errors == blockedPatternErrors(sandboxPath, 1)
         IN  [valid |-> Len(errors) = 0,
              errors |-> errors,
              warnings |-> IF isAllowed(sandboxPath) THEN <<>>
                           ELSE <<notInAllowedDirectories(sandboxPath)>>]

\* the chunks of the validated paths: those of the sanitized paths, and a blank
ValidatedChunks == PathChunks \cup { <<" ">> }

ValidatedPaths ==
    ExamplePaths
        \cup UNION { {flatten(f, 1) : f \in [1..n -> ValidatedChunks]} : n \in 0..MaxChunks }

NoPathCheck == [pc |-> "off", path |-> NoPath, result |-> createResult]

\* a caller hands its path to validateSandboxPath and keeps the result
Validate ==
    /\ pathCheck.pc = "start"
    /\ pathCheck' = [pathCheck EXCEPT !.result = validateSandboxPath(pathCheck.path),
                                      !.pc = "validated"]

(***************************************************************************)
(* The interactive loop together with the Session Manager it calls.        *)
(*                                                                         *)
(* The loop keeps the Session that getOrCreateSession or reset returned in *)
(* its local variable session; the manager keeps its own this.session.     *)
(* Sessions are numbered in the order createSession made them, 0 stands    *)
(* for null.  The manager's operations are taken as wholes here: each one  *)
(* is awaited by the loop, and the idle sweep runs while the loop waits at *)
(* a prompt.                                                               *)
(***************************************************************************)

\* held: this.session of the manager; made: sessions created so far; kept:
\* the loop's local session; ranWith: the session whose tunnelUrl the last
\* runTaskWithSession built its tools from
NoManager == [held |-> 0, made |-> 0, kept |-> 0, ranWith |-> 0]

\* runTaskWithSession(session, ...) starts: markActive(), then
\* buildTools(session.tunnelUrl) with the session it was given
taskStarted(given) == [mgr EXCEPT !.ranWith = given]

LoopRunAgent == RunAgent /\ UNCHANGED mgr

LoopQuestion(line) == Question(line) /\ UNCHANGED mgr

\* session = await sessionManager.reset(): cleanup() clears the manager's
\* session, then getOrCreateSession creates one or raises
LoopResetSettles(ok) ==
    /\ ResetSettles(ok)
    /\ mgr' = IF ok THEN [mgr EXCEPT !.held = mgr.made + 1, !.made = @ + 1,
                                     !.kept = mgr.made + 1]
              ELSE [mgr EXCEPT !.held = 0]

\* the Context prompt is answered: with a session kept, the loop goes
\* straight to runTaskWithSession(session, ...)
LoopContextAnswered ==
    /\ ContextAnswered
    /\ mgr' = IF ~cli.sessionInitialized \/ ~cli.session THEN mgr
              ELSE taskStarted(mgr.kept)

\* session = await sessionManager.getOrCreateSession(): the manager's session
\* is reused, or one is created (after the cleanup of an invalid one); on
\* success runTaskWithSession starts with it
LoopSessionSettles(ok, created, lost) ==
    /\ created => ok
    /\ ~created /\ ok => mgr.held # 0
    /\ SessionSettles(ok, created, lost)
    /\ LET held == IF created THEN mgr.made + 1 ELSE IF ok THEN mgr.held ELSE 0
       IN  mgr' = [held |-> held,
                   made |-> IF created THEN mgr.made + 1 ELSE mgr.made,
                   kept |-> IF ok THEN held ELSE IF lost THEN 0 ELSE mgr.kept,
                   ranWith |-> IF ok THEN held ELSE mgr.ranWith]

\* runTaskWithSession settled; an error that names the sandbox or the tunnel
\* makes the loop drop its session
LoopTaskSettles(ok, lost) ==
    /\ TaskSettles(ok, lost)
    /\ mgr' = IF ~ok /\ lost THEN [mgr EXCEPT !.kept = 0] ELSE mgr

\* the idle-check interval fires while the loop waits at a prompt, finds the
\* session timed out, and cleanup() tears it down: this.session = null
IdleSweep ==
    /\ cli.mode = "interactive"
    /\ cli.pc \in {"prompt", "context"}
    /\ mgr.held # 0
    /\ mgr' = [mgr EXCEPT !.held = 0]
    /\ UNCHANGED cli

\* the cleanup of the exit command: sessionManager.cleanup()
LoopExited == Exited /\ mgr' = [mgr EXCEPT !.held = 0]

\* SIGINT: sessionManager.cleanup(), process.exit(0)
LoopSigint == Sigint /\ mgr' = [mgr EXCEPT !.held = 0]

(***************************************************************************)
(* fuzzyFindFile called once, in a local directory that holds any of the   *)
(* names as a file, as a directory, or not at all.                         *)
(***************************************************************************)

NoFuzzy == [pc |-> "off", files |-> NoFiles, filePath |-> undefined, result |-> NotFound]

\* handleUpload: localPath = path.resolve(expandPath(params.local_path));
\* fuzzyResult = await fuzzyFindFile(localPath)
FuzzyFindFile ==
    /\ fuzzy.pc = "start"
    /\ \E res \in fuzzyFindFile(fuzzy.files, resolve(fuzzy.filePath)) :
           fuzzy' = [fuzzy EXCEPT !.pc = "done", !.result = res]

(***************************************************************************)
(* withRetry with the delays it sleeps and the onRetry calls it makes.     *)
(* Times are in milliseconds.                                              *)
(***************************************************************************)

\* delays: the delayMs of each retry; calls: the arguments of each onRetry
\* call; log: "onRetry", "sleep" and "throw" in the order they happened
NoPace == [delays |-> <<>>, calls |-> <<>>, log |-> <<>>]

PaceMaxAttempts == 4

\* the values Math.random() returns, in 1024ths: 0, 1/4, 1/2 and 1023/1024
Randoms == {0, 256, 512, 1023}

\* baseDelayMs and maxDelayMs: those of the api and sandbox classes, a cap
\* that the second retry reaches, and delays of a few milliseconds
DelayOptions ==
    { [baseDelayMs |-> 500, maxDelayMs |-> 5000],
      [baseDelayMs |-> 1000, maxDelayMs |-> 10000],
      [baseDelayMs |-> 1000, maxDelayMs |-> 1500],
      [baseDelayMs |-> 3, maxDelayMs |-> 8],
      [baseDelayMs |-> 2, maxDelayMs |-> 3] }

PaceOptions ==
    { [maxAttempts |-> m,
       baseDelayMs |-> d.baseDelayMs,
       maxDelayMs |-> d.maxDelayMs,
       retryableErrors |-> r,
       nonRetryableErrors |-> << <<"T", "y", "p", "e", "E", "r", "r", "o", "r">> >>] :
          m \in 1..PaceMaxAttempts, d \in DelayOptions, r \in RetryableLists }

\* the values fn raises: a retryable error, a non-retryable one, a string
PaceRaised(n) ==
    { [isError |-> TRUE, name |-> ErrorName,
       message |-> <<"E", "T", "I", "M", "E", "D", "O", "U", "T">>, id |-> n],
      [isError |-> TRUE, name |-> TypeErrorName, message |-> <<"b", "a", "d">>, id |-> n],
      [isError |-> FALSE, name |-> <<>>, message |-> <<"b", "a", "d">>, id |-> n] }

\* Math.min
mathMin(a, b) == IF a <= b THEN a ELSE b

\* a calculateDelay that does not cap the exponential delay
calculateDelayUncapped(attempt, baseDelayMs, maxDelayMs, random) ==
    LET exponentialDelay == baseDelayMs * 2^attempt
    IN  (2 * (exponentialDelay * 4096
                  + exponentialDelay * (2 * random - 1024))
             + 4096) \div 8192

\* calculateDelay(attempt, baseDelayMs, maxDelayMs), random being the value of
\* Math.random() in 1024ths.  jitter = cappedDelay * 0.25 * (random * 2 - 1)
\* is cappedDelay * (2 * random - 1024) / 4096, and Math.round(x) is
\* floor(x + 1/2)
calculateDelay(attempt, baseDelayMs, maxDelayMs, random) ==
    LET exponentialDelay == baseDelayMs * 2^attempt
        cappedDelay == mathMin(exponentialDelay, maxDelayMs)
    IN  (2 * (cappedDelay * 4096
                  + cappedDelay * (2 * random - 1024))
             + 4096) \div 8192

\* fn returned
PaceInvokeReturns == InvokeReturns /\ UNCHANGED pace

\* fn raised: withRetry throws, or computes delayMs, calls
\* onRetry(attempt + 1, lastError, delayMs) and starts sleep(delayMs)
PaceInvokeRaises(error, random) ==
    /\ InvokeRaises(error)
    /\ IF shouldRetry(rAttempt, asError(error), rOptions)
           THEN LET delayMs == calculateDelay(rAttempt, rOptions.baseDelayMs,
                                              rOptions.maxDelayMs, random)
                IN  pace' = [delays |-> Append(pace.delays, delayMs),
                             calls |-> Append(pace.calls,
                                              [attempt |-> rAttempt + 1,
                                               error |-> asError(error),
                                               delayMs |-> delayMs]),
                             log |-> pace.log \o <<"onRetry", "sleep">>]
           ELSE pace' = [pace EXCEPT !.log = Append(@, "throw")]

\* the sleep is over
PaceWake == Wake /\ UNCHANGED pace

(***************************************************************************)
(* Specifications.  Each one runs one component; the variables of the      *)
(* others stay at rest.                                                    *)
(***************************************************************************)

RestOptions == [maxAttempts |-> 1, retryableErrors |-> <<>>, nonRetryableErrors |-> <<>>]

InitPath ==
    /\ pathPc = "start"
    /\ \/ pathIn \in ExamplePaths
       \/ \E n \in 0..MaxChunks : \E f \in [1..n -> PathChunks] : pathIn = flatten(f, 1)
    /\ pathOut = NoPath
    /\ pathOut2 = NoPath
    /\ rPc = "idle"
    /\ rOptions = RestOptions
    /\ rAttempt = 0
    /\ rRaised = <<>>
    /\ rInvocations = 0
    /\ rLastError = NoAttemptsMade
    /\ rThrown = NoError
    /\ rOnRetry = 0
    /\ now = 1
    /\ config = FALSE
    /\ tunnelConfig = [externalUrl |-> FALSE, enabled |-> TRUE, autoStart |-> TRUE]
    /\ session = NoSession
    /\ idleCheckInterval = FALSE
    /\ sb = [n \in 1..MaxSessions |-> NoSandbox]
    /\ ts = [n \in 1..MaxSessions |-> "none"]
    /\ tn = [t \in 1..MaxTunnels |-> NoTunnel]
    /\ nSandboxes = 0
    /\ nTunnels = 0
    /\ tunnelHealth = HealthyBaseline
    /\ pc = [p \in Procs |-> "off"]
    /\ loc = [p \in Procs |-> NoLocals]
    /\ hCall = NoCall
    /\ hRet = NoReturn
    /\ hFailed = FALSE
    /\ nCalls = 0
    /\ tm = NoClient
    /\ sandboxInstance = 0
    /\ rq = NoRequest
    /\ nRequests = 0
    /\ localFs = [p \in LocalPaths |-> absent]
    /\ sandboxFs = [p \in SandboxPaths |-> absent]
    /\ xf = NoTransfer
    /\ cli = NoCli
    /\ ini = NoInitialize
    /\ environment = NoEnvironment
    /\ pathCheck = NoPathCheck
    /\ mgr = NoManager
    /\ fuzzy = NoFuzzy
    /\ pace = NoPace

NextPath ==
    \/ Sanitize /\ UNCHANGED <<retryVars, sessionVars, tm, frontVars>>
    \/ SanitizeAgain /\ UNCHANGED <<retryVars, sessionVars, tm, frontVars>>

SpecPath == InitPath /\ [][NextPath]_vars

InitRetry ==
    /\ pathPc = "idle"
    /\ pathIn = NoPath
    /\ pathOut = NoPath
    /\ pathOut2 = NoPath
    /\ rPc = "calling"
    /\ rOptions \in RetryOptionsSet
    /\ rAttempt = 0
    /\ rRaised = <<>>
    /\ rInvocations = 0
    /\ rLastError = NoAttemptsMade
    /\ rThrown = NoError
    /\ rOnRetry = 0
    /\ now = 1
    /\ config = FALSE
    /\ tunnelConfig = [externalUrl |-> FALSE, enabled |-> TRUE, autoStart |-> TRUE]
    /\ session = NoSession
    /\ idleCheckInterval = FALSE
    /\ sb = [n \in 1..MaxSessions |-> NoSandbox]
    /\ ts = [n \in 1..MaxSessions |-> "none"]
    /\ tn = [t \in 1..MaxTunnels |-> NoTunnel]
    /\ nSandboxes = 0
    /\ nTunnels = 0
    /\ tunnelHealth = HealthyBaseline
    /\ pc = [p \in Procs |-> "off"]
    /\ loc = [p \in Procs |-> NoLocals]
    /\ hCall = NoCall
    /\ hRet = NoReturn
    /\ hFailed = FALSE
    /\ nCalls = 0
    /\ tm = NoClient
    /\ sandboxInstance = 0
    /\ rq = NoRequest
    /\ nRequests = 0
    /\ localFs = [p \in LocalPaths |-> absent]
    /\ sandboxFs = [p \in SandboxPaths |-> absent]
    /\ xf = NoTransfer
    /\ cli = NoCli
    /\ ini = NoInitialize
    /\ environment = NoEnvironment
    /\ pathCheck = NoPathCheck
    /\ mgr = NoManager
    /\ fuzzy = NoFuzzy
    /\ pace = NoPace

NextRetry ==
    \/ InvokeReturns /\ UNCHANGED <<pathVars, sessionVars, tm, frontVars>>
    \/ (\E error \in RaisedValues(rInvocations + 1) : InvokeRaises(error))
           /\ UNCHANGED <<pathVars, sessionVars, tm, frontVars>>
    \/ Wake /\ UNCHANGED <<pathVars, sessionVars, tm, frontVars>>

SpecRetry == InitRetry /\ [][NextRetry]_vars

InitSession ==
    /\ pathPc = "idle"
    /\ pathIn = NoPath
    /\ pathOut = NoPath
    /\ pathOut2 = NoPath
    /\ rPc = "idle"
    /\ rOptions = RestOptions
    /\ rAttempt = 0
    /\ rRaised = <<>>
    /\ rInvocations = 0
    /\ rLastError = NoAttemptsMade
    /\ rThrown = NoError
    /\ rOnRetry = 0
    /\ now = 1
    /\ config = FALSE
    /\ tunnelConfig \in TunnelConfigs
    /\ session = NoSession
    /\ idleCheckInterval = FALSE
    /\ sb = [n \in 1..MaxSessions |-> NoSandbox]
    /\ ts = [n \in 1..MaxSessions |-> "none"]
    /\ tn = [t \in 1..MaxTunnels |-> NoTunnel]
    /\ nSandboxes = 0
    /\ nTunnels = 0
    /\ tunnelHealth = HealthyBaseline
    /\ pc = [p \in Procs |-> "idle"]
    /\ loc = [p \in Procs |-> NoLocals]
    /\ hCall = NoCall
    /\ hRet = NoReturn
    /\ hFailed = FALSE
    /\ nCalls = 0
    /\ tm = NoClient
    /\ sandboxInstance = 0
    /\ rq = NoRequest
    /\ nRequests = 0
    /\ localFs = [p \in LocalPaths |-> absent]
    /\ sandboxFs = [p \in SandboxPaths |-> absent]
    /\ xf = NoTransfer
    /\ cli = NoCli
    /\ ini = NoInitialize
    /\ environment = NoEnvironment
    /\ pathCheck = NoPathCheck
    /\ mgr = NoManager
    /\ fuzzy = NoFuzzy
    /\ pace = NoPace

NextSession ==
    \/ GocLoadConfig /\ UNCHANGED <<pathVars, retryVars, tm, frontVars>>
    \/ ConfigLoaded /\ UNCHANGED <<pathVars, retryVars, tm, frontVars>>
    \/ GocReuse /\ UNCHANGED <<pathVars, retryVars, tm, frontVars>>
    \/ GocReconnectStart /\ UNCHANGED <<pathVars, retryVars, tm, frontVars>>
    \/ (\E connected \in BOOLEAN : GocReconnected(connected))
           /\ UNCHANGED <<pathVars, retryVars, tm, frontVars>>
    \/ GocInvalid /\ UNCHANGED <<pathVars, retryVars, tm, frontVars>>
    \/ GocCreate /\ UNCHANGED <<pathVars, retryVars, tm, frontVars>>
    \/ (\E created \in BOOLEAN : CsSandboxCreated(created))
           /\ UNCHANGED <<pathVars, retryVars, tm, frontVars>>
    \/ CsEnvironmentReady /\ UNCHANGED <<pathVars, retryVars, tm, frontVars>>
    \/ (\E bound \in BOOLEAN : CsListened(bound))
           /\ UNCHANGED <<pathVars, retryVars, tm, frontVars>>
    \/ (\E connected \in BOOLEAN : CsTunnelStarted(connected))
           /\ UNCHANGED <<pathVars, retryVars, tm, frontVars>>
    \/ CallReset /\ UNCHANGED <<pathVars, retryVars, tm, frontVars>>
    \/ CallCleanup /\ UNCHANGED <<pathVars, retryVars, tm, frontVars>>
    \/ MarkActive /\ UNCHANGED <<pathVars, retryVars, tm, frontVars>>
    \/ SweepTick /\ UNCHANGED <<pathVars, retryVars, tm, frontVars>>
    \/ (\E n \in 1..MaxSessions : ServerClosed(n))
           /\ UNCHANGED <<pathVars, retryVars, tm, frontVars>>
    \/ (\E p \in Procs : \E killed \in BOOLEAN : CleanupKilled(p, killed))
           /\ UNCHANGED <<pathVars, retryVars, tm, frontVars>>
    \/ Tick /\ UNCHANGED <<pathVars, retryVars, tm, frontVars>>
    \/ (\E n \in 1..MaxSessions : SandboxExpires(n))
           /\ UNCHANGED <<pathVars, retryVars, tm, frontVars>>
    \/ (\E t \in 1..MaxTunnels : ProbeStart(t)) /\ UNCHANGED <<pathVars, retryVars, tm, frontVars>>
    \/ (\E t \in 1..MaxTunnels : ProbeSucceeds(t))
           /\ UNCHANGED <<pathVars, retryVars, tm, frontVars>>
    \/ (\E t \in 1..MaxTunnels : ProbeFails(t)) /\ UNCHANGED <<pathVars, retryVars, tm, frontVars>>
    \/ (\E t \in 1..MaxTunnels : TunnelError(t)) /\ UNCHANGED <<pathVars, retryVars, tm, frontVars>>

SpecSession == InitSession /\ [][NextSession]_vars

\* The Session Manager with the tunnel URL supplied in TUNNEL_URL: setupTunnel
\* returns it, no tunnel is started, and nothing of the Tunnel Manager runs.
\* What the event loop and the services guarantee is stated as fairness: the
\* idle-check interval goes on firing, and an awaited server.close() or
\* sandbox.kill() settles.
InitSweep ==
    /\ pathPc = "idle"
    /\ pathIn = NoPath
    /\ pathOut = NoPath
    /\ pathOut2 = NoPath
    /\ rPc = "idle"
    /\ rOptions = RestOptions
    /\ rAttempt = 0
    /\ rRaised = <<>>
    /\ rInvocations = 0
    /\ rLastError = NoAttemptsMade
    /\ rThrown = NoError
    /\ rOnRetry = 0
    /\ now = 1
    /\ config = FALSE
    /\ tunnelConfig = [externalUrl |-> TRUE, enabled |-> TRUE, autoStart |-> TRUE]
    /\ session = NoSession
    /\ idleCheckInterval = FALSE
    /\ sb = [n \in 1..MaxSessions |-> NoSandbox]
    /\ ts = [n \in 1..MaxSessions |-> "none"]
    /\ tn = [t \in 1..MaxTunnels |-> NoTunnel]
    /\ nSandboxes = 0
    /\ nTunnels = 0
    /\ tunnelHealth = HealthyBaseline
    /\ pc = [p \in Procs |-> "idle"]
    /\ loc = [p \in Procs |-> NoLocals]
    /\ hCall = NoCall
    /\ hRet = NoReturn
    /\ hFailed = FALSE
    /\ nCalls = 0
    /\ tm = NoClient
    /\ sandboxInstance = 0
    /\ rq = NoRequest
    /\ nRequests = 0
    /\ localFs = [p \in LocalPaths |-> absent]
    /\ sandboxFs = [p \in SandboxPaths |-> absent]
    /\ xf = NoTransfer
    /\ cli = NoCli
    /\ ini = NoInitialize
    /\ environment = NoEnvironment
    /\ pathCheck = NoPathCheck
    /\ mgr = NoManager
    /\ fuzzy = NoFuzzy
    /\ pace = NoPace

SweepFires == SweepTick /\ UNCHANGED <<pathVars, retryVars, tm, frontVars>>

CloseSettles(n) == ServerClosed(n) /\ UNCHANGED <<pathVars, retryVars, tm, frontVars>>

KillSettles(p) ==
    (\E killed \in BOOLEAN : CleanupKilled(p, killed))
        /\ UNCHANGED <<pathVars, retryVars, tm, frontVars>>

NextSweep ==
    \/ GocLoadConfig /\ UNCHANGED <<pathVars, retryVars, tm, frontVars>>
    \/ ConfigLoaded /\ UNCHANGED <<pathVars, retryVars, tm, frontVars>>
    \/ GocReuse /\ UNCHANGED <<pathVars, retryVars, tm, frontVars>>
    \/ GocInvalid /\ UNCHANGED <<pathVars, retryVars, tm, frontVars>>
    \/ GocCreate /\ UNCHANGED <<pathVars, retryVars, tm, frontVars>>
    \/ (\E created \in BOOLEAN : CsSandboxCreated(created))
           /\ UNCHANGED <<pathVars, retryVars, tm, frontVars>>
    \/ CsEnvironmentReady /\ UNCHANGED <<pathVars, retryVars, tm, frontVars>>
    \/ (\E bound \in BOOLEAN : CsListened(bound))
           /\ UNCHANGED <<pathVars, retryVars, tm, frontVars>>
    \/ CallReset /\ UNCHANGED <<pathVars, retryVars, tm, frontVars>>
    \/ CallCleanup /\ UNCHANGED <<pathVars, retryVars, tm, frontVars>>
    \/ MarkActive /\ UNCHANGED <<pathVars, retryVars, tm, frontVars>>
    \/ SweepFires
    \/ (\E n \in 1..MaxSessions : CloseSettles(n))
    \/ (\E p \in Procs : KillSettles(p))
    \/ Tick /\ UNCHANGED <<pathVars, retryVars, tm, frontVars>>
    \/ (\E n \in 1..MaxSessions : SandboxExpires(n))
           /\ UNCHANGED <<pathVars, retryVars, tm, frontVars>>

SpecSweepFair ==
    /\ InitSweep
    /\ [][NextSweep]_vars
    /\ WF_vars(SweepFires)
    /\ \A n \in 1..MaxSessions : WF_vars(CloseSettles(n))
    /\ \A p \in Procs : WF_vars(KillSettles(p))

InitTunnel ==
    /\ pathPc = "idle"
    /\ pathIn = NoPath
    /\ pathOut = NoPath
    /\ pathOut2 = NoPath
    /\ rPc = "idle"
    /\ rOptions = RestOptions
    /\ rAttempt = 0
    /\ rRaised = <<>>
    /\ rInvocations = 0
    /\ rLastError = NoAttemptsMade
    /\ rThrown = NoError
    /\ rOnRetry = 0
    /\ now = 1
    /\ config = TRUE
    /\ tunnelConfig \in AllTunnelConfigs
    /\ session = NoSession
    /\ idleCheckInterval = FALSE
    /\ sb = [n \in 1..MaxSessions |-> NoSandbox]
    /\ ts = [n \in 1..MaxSessions |-> "none"]
    /\ tn = [t \in 1..MaxTunnels |-> NoTunnel]
    /\ nSandboxes = 0
    /\ nTunnels = 0
    /\ tunnelHealth = HealthyBaseline
    /\ pc = [p \in Procs |-> "off"]
    /\ loc = [p \in Procs |-> NoLocals]
    /\ hCall = NoCall
    /\ hRet = NoReturn
    /\ hFailed = FALSE
    /\ nCalls = 0
    /\ tm = NoClient
    /\ sandboxInstance = 0
    /\ rq = NoRequest
    /\ nRequests = 0
    /\ localFs = [p \in LocalPaths |-> absent]
    /\ sandboxFs = [p \in SandboxPaths |-> absent]
    /\ xf = NoTransfer
    /\ cli = NoCli
    /\ ini = NoInitialize
    /\ environment = NoEnvironment
    /\ pathCheck = NoPathCheck
    /\ mgr = NoManager
    /\ fuzzy = NoFuzzy
    /\ pace = NoPace

NextTunnel ==
    \/ TmSetupTunnel /\ UNCHANGED <<pathVars, retryVars, frontVars>>
    \/ (\E connected \in BOOLEAN : TmTunnelStarted(connected))
           /\ UNCHANGED <<pathVars, retryVars, frontVars>>
    \/ TmStopTunnel /\ UNCHANGED <<pathVars, retryVars, frontVars>>
    \/ TmReconnect /\ UNCHANGED <<pathVars, retryVars, frontVars>>
    \/ (\E connected \in BOOLEAN : TmReconnected(connected))
           /\ UNCHANGED <<pathVars, retryVars, frontVars>>
    \/ (\E t \in 1..MaxTunnels : TmProbeStart(t))
           /\ UNCHANGED <<pathVars, retryVars, frontVars>>
    \/ (\E t \in 1..MaxTunnels : TmProbeSucceeds(t))
           /\ UNCHANGED <<pathVars, retryVars, frontVars>>
    \/ (\E t \in 1..MaxTunnels : TmProbeFails(t))
           /\ UNCHANGED <<pathVars, retryVars, frontVars>>
    \/ (\E t \in 1..MaxTunnels : TmTunnelError(t))
           /\ UNCHANGED <<pathVars, retryVars, frontVars>>

SpecTunnel == InitTunnel /\ [][NextTunnel]_vars

\* the session variables the Tool Server does not touch
sessionRest == <<now, config, tunnelConfig, session, idleCheckInterval, tn,
                 nSandboxes, nTunnels, tunnelHealth, pc, loc, hCall, hRet,
                 hFailed, nCalls>>

InitServer ==
    /\ pathPc = "idle"
    /\ pathIn = NoPath
    /\ pathOut = NoPath
    /\ pathOut2 = NoPath
    /\ rPc = "idle"
    /\ rOptions \in ExecutionOptions
    /\ rAttempt = 0
    /\ rRaised = <<>>
    /\ rInvocations = 0
    /\ rLastError = NoAttemptsMade
    /\ rThrown = NoError
    /\ rOnRetry = 0
    /\ now = 1
    /\ config = FALSE
    /\ tunnelConfig = [externalUrl |-> FALSE, enabled |-> TRUE, autoStart |-> TRUE]
    /\ session = NoSession
    /\ idleCheckInterval = FALSE
    /\ sb = [n \in 1..MaxSessions |-> NoSandbox]
    /\ ts = [n \in 1..MaxSessions |-> "none"]
    /\ tn = [t \in 1..MaxTunnels |-> NoTunnel]
    /\ nSandboxes = 0
    /\ nTunnels = 0
    /\ tunnelHealth = HealthyBaseline
    /\ pc = [p \in Procs |-> "off"]
    /\ loc = [p \in Procs |-> NoLocals]
    /\ hCall = NoCall
    /\ hRet = NoReturn
    /\ hFailed = FALSE
    /\ nCalls = 0
    /\ tm = NoClient
    /\ sandboxInstance = 0
    /\ rq = NoRequest
    /\ nRequests = 0
    /\ localFs = [p \in LocalPaths |-> absent]
    /\ sandboxFs = [p \in SandboxPaths |-> absent]
    /\ xf = NoTransfer
    /\ cli = NoCli
    /\ ini = NoInitialize
    /\ environment = NoEnvironment
    /\ pathCheck = NoPathCheck
    /\ mgr = NoManager
    /\ fuzzy = NoFuzzy
    /\ pace = NoPace

\* Servers are started and stopped between two requests, and an adapter is
\* cleaned up between two requests or during an execution: a request in the
\* handler reads the servers and sandboxInstance when it is received only,
\* and the adapter again at each executeOnce.
NextServer ==
    \/ rq.pc = "none" /\ (\E s \in 1..MaxSessions : Start(s))
           /\ UNCHANGED <<pathVars, sessionRest, tm, transferVars, cliVars, unitVars>>
    \/ rq.pc = "none"
           /\ (\E s \in 1..MaxSessions : \E created \in BOOLEAN : StartInitialized(s, created))
           /\ UNCHANGED <<pathVars, sessionRest, tm, transferVars, cliVars, unitVars>>
    \/ rq.pc = "none"
           /\ (\E s \in 1..MaxSessions : \E bound \in BOOLEAN : StartListened(s, bound))
           /\ UNCHANGED <<pathVars, sessionRest, tm, transferVars, cliVars, unitVars>>
    \/ rq.pc = "none" /\ (\E s \in 1..MaxSessions : Stop(s))
           /\ UNCHANGED <<pathVars, sessionRest, tm, transferVars, cliVars, unitVars>>
    \/ rq.pc = "none" /\ (\E s \in 1..MaxSessions : StopClosed(s))
           /\ UNCHANGED <<pathVars, sessionRest, tm, transferVars, cliVars, unitVars>>
    \/ rq.pc \in {"none", "executing"} /\ (\E a \in 1..MaxSessions : Cleanup(a))
           /\ UNCHANGED <<pathVars, sessionRest, tm, transferVars, cliVars, unitVars>>
    \/ (\E s \in 1..MaxSessions : \E req \in Requests : \E files \in LocalDirsOf(req) :
            Receive(s, req, files))
           /\ UNCHANGED <<pathVars, sessionRest, tm, transferVars, cliVars, unitVars>>
    \/ (\E exitCode \in {0, 1} : ExecRunExits(exitCode))
           /\ UNCHANGED <<pathVars, sessionRest, tm, transferVars, cliVars, unitVars>>
    \/ (\E error \in SandboxErrors(rInvocations + 1) : \E ran, slow \in BOOLEAN :
            ExecRunRaises(error, ran, slow))
           /\ UNCHANGED <<pathVars, sessionRest, tm, transferVars, cliVars, unitVars>>
    \/ ExecTimerFires /\ UNCHANGED <<pathVars, sessionRest, tm, transferVars, cliVars, unitVars>>
    \/ (\E slow \in BOOLEAN : ExecUnsupported(slow))
           /\ UNCHANGED <<pathVars, sessionRest, tm, transferVars, cliVars, unitVars>>
    \/ (\E slow \in BOOLEAN : ExecSandboxGone(slow))
           /\ UNCHANGED <<pathVars, sessionRest, tm, transferVars, cliVars, unitVars>>
    \/ ExecWake /\ UNCHANGED <<pathVars, sessionRest, tm, transferVars, cliVars, unitVars>>
    \/ (\E ok \in BOOLEAN : UploadSettles(ok)) /\ UNCHANGED <<pathVars, sessionRest, tm, transferVars, cliVars, unitVars>>
    \/ (\E ok \in BOOLEAN : DownloadSettles(ok)) /\ UNCHANGED <<pathVars, sessionRest, tm, transferVars, cliVars, unitVars>>
    \/ HandlerReturns /\ UNCHANGED <<pathVars, sessionRest, tm, transferVars, cliVars, unitVars>>

SpecServer == InitServer /\ [][NextServer]_vars

InitUpload ==
    /\ pathPc = "idle"
    /\ pathIn = NoPath
    /\ pathOut = NoPath
    /\ pathOut2 = NoPath
    /\ rPc = "idle"
    /\ rOptions = execution
    /\ rAttempt = 0
    /\ rRaised = <<>>
    /\ rInvocations = 0
    /\ rLastError = NoAttemptsMade
    /\ rThrown = NoError
    /\ rOnRetry = 0
    /\ now = 1
    /\ config = FALSE
    /\ tunnelConfig = [externalUrl |-> FALSE, enabled |-> TRUE, autoStart |-> TRUE]
    /\ session = NoSession
    /\ idleCheckInterval = FALSE
    /\ sb = [n \in 1..MaxSessions |-> NoSandbox]
    /\ ts = [n \in 1..MaxSessions |-> "none"]
    /\ tn = [t \in 1..MaxTunnels |-> NoTunnel]
    /\ nSandboxes = 0
    /\ nTunnels = 0
    /\ tunnelHealth = HealthyBaseline
    /\ pc = [p \in Procs |-> "off"]
    /\ loc = [p \in Procs |-> NoLocals]
    /\ hCall = NoCall
    /\ hRet = NoReturn
    /\ hFailed = FALSE
    /\ nCalls = 0
    /\ tm = NoClient
    /\ sandboxInstance = 0
    /\ rq = NoRequest
    /\ nRequests = 0
    /\ localFs = [p \in LocalPaths |-> absent]
    /\ sandboxFs = [p \in SandboxPaths |-> absent]
    /\ xf = NoTransfer
    /\ cli = NoCli
    /\ ini = NoInitialize
    /\ environment = NoEnvironment
    /\ pathCheck = NoPathCheck
    /\ mgr = NoManager
    /\ fuzzy = NoFuzzy
    /\ pace = NoPace

\* One tool server is started and receives upload requests, each in a local
\* directory that holds any of the names as a file, as a directory, or not
\* at all.
NextUpload ==
    \/ Start(1) /\ UNCHANGED <<pathVars, sessionRest, tm, transferVars, cliVars, unitVars>>
    \/ (\E created \in BOOLEAN : StartInitialized(1, created))
           /\ UNCHANGED <<pathVars, sessionRest, tm, transferVars, cliVars, unitVars>>
    \/ (\E bound \in BOOLEAN : StartListened(1, bound))
           /\ UNCHANGED <<pathVars, sessionRest, tm, transferVars, cliVars, unitVars>>
    \/ (\E req \in UploadRequests : \E files \in LocalDirs : Receive(1, req, files))
           /\ UNCHANGED <<pathVars, sessionRest, tm, transferVars, cliVars, unitVars>>
    \/ (\E ok \in BOOLEAN : UploadSettles(ok))
           /\ UNCHANGED <<pathVars, sessionRest, tm, transferVars, cliVars, unitVars>>
    \/ HandlerReturns /\ UNCHANGED <<pathVars, sessionRest, tm, transferVars, cliVars, unitVars>>

SpecUpload == InitUpload /\ [][NextUpload]_vars

InitCli ==
    /\ pathPc = "idle"
    /\ pathIn = NoPath
    /\ pathOut = NoPath
    /\ pathOut2 = NoPath
    /\ rPc = "idle"
    /\ rOptions = RestOptions
    /\ rAttempt = 0
    /\ rRaised = <<>>
    /\ rInvocations = 0
    /\ rLastError = NoAttemptsMade
    /\ rThrown = NoError
    /\ rOnRetry = 0
    /\ now = 1
    /\ config = FALSE
    /\ tunnelConfig = [externalUrl |-> FALSE, enabled |-> TRUE, autoStart |-> TRUE]
    /\ session = NoSession
    /\ idleCheckInterval = FALSE
    /\ sb = [n \in 1..MaxSessions |-> NoSandbox]
    /\ ts = [n \in 1..MaxSessions |-> "none"]
    /\ tn = [t \in 1..MaxTunnels |-> NoTunnel]
    /\ nSandboxes = 0
    /\ nTunnels = 0
    /\ tunnelHealth = HealthyBaseline
    /\ pc = [p \in Procs |-> "off"]
    /\ loc = [p \in Procs |-> NoLocals]
    /\ hCall = NoCall
    /\ hRet = NoReturn
    /\ hFailed = FALSE
    /\ nCalls = 0
    /\ tm = NoClient
    /\ sandboxInstance = 0
    /\ rq = NoRequest
    /\ nRequests = 0
    /\ localFs = [p \in LocalPaths |-> absent]
    /\ sandboxFs = [p \in SandboxPaths |-> absent]
    /\ xf = NoTransfer
    /\ cli = NoCli
    /\ ini = NoInitialize
    /\ environment = NoEnvironment
    /\ pathCheck = NoPathCheck
    /\ mgr = NoManager
    /\ fuzzy = NoFuzzy
    /\ pace = NoPace

\* The process runs the interactive loop or one call of runAgentWithTask.
NextCli ==
    \/ RunAgent /\ UNCHANGED <<pathVars, retryVars, sessionVars, tm, serverVars, transferVars, unitVars>>
    \/ (\E line \in Tasks \cup CommandLines : Question(line))
           /\ UNCHANGED <<pathVars, retryVars, sessionVars, tm, serverVars, transferVars, unitVars>>
    \/ (\E ok \in BOOLEAN : ResetSettles(ok))
           /\ UNCHANGED <<pathVars, retryVars, sessionVars, tm, serverVars, transferVars, unitVars>>
    \/ ContextAnswered /\ UNCHANGED <<pathVars, retryVars, sessionVars, tm, serverVars, transferVars, unitVars>>
    \/ (\E ok, created, lost \in BOOLEAN : SessionSettles(ok, created, lost))
           /\ UNCHANGED <<pathVars, retryVars, sessionVars, tm, serverVars, transferVars, unitVars>>
    \/ (\E ok, lost \in BOOLEAN : TaskSettles(ok, lost))
           /\ UNCHANGED <<pathVars, retryVars, sessionVars, tm, serverVars, transferVars, unitVars>>
    \/ Exited /\ UNCHANGED <<pathVars, retryVars, sessionVars, tm, serverVars, transferVars, unitVars>>
    \/ (\E task \in Tasks : \E apiKey \in BOOLEAN : RunAgentWithTask(task, apiKey))
           /\ UNCHANGED <<pathVars, retryVars, sessionVars, tm, serverVars, transferVars, unitVars>>
    \/ (\E ok \in BOOLEAN : InitializeSettles(ok))
           /\ UNCHANGED <<pathVars, retryVars, sessionVars, tm, serverVars, transferVars, unitVars>>
    \/ (\E ok \in BOOLEAN : ServerStarted(ok))
           /\ UNCHANGED <<pathVars, retryVars, sessionVars, tm, serverVars, transferVars, unitVars>>
    \/ (\E ok \in BOOLEAN : TunnelSettles(ok))
           /\ UNCHANGED <<pathVars, retryVars, sessionVars, tm, serverVars, transferVars, unitVars>>
    \/ (\E ok \in BOOLEAN : StreamSettles(ok))
           /\ UNCHANGED <<pathVars, retryVars, sessionVars, tm, serverVars, transferVars, unitVars>>
    \/ (\E stopped \in BOOLEAN : Finally(stopped))
           /\ UNCHANGED <<pathVars, retryVars, sessionVars, tm, serverVars, transferVars, unitVars>>
    \/ Sigint /\ UNCHANGED <<pathVars, retryVars, sessionVars, tm, serverVars, transferVars, unitVars>>

SpecCli == InitCli /\ [][NextCli]_vars

InitTransfer ==
    /\ pathPc = "idle"
    /\ pathIn = NoPath
    /\ pathOut = NoPath
    /\ pathOut2 = NoPath
    /\ rPc = "idle"
    /\ rOptions = RestOptions
    /\ rAttempt = 0
    /\ rRaised = <<>>
    /\ rInvocations = 0
    /\ rLastError = NoAttemptsMade
    /\ rThrown = NoError
    /\ rOnRetry = 0
    /\ now = 1
    /\ config = FALSE
    /\ tunnelConfig = [externalUrl |-> FALSE, enabled |-> TRUE, autoStart |-> TRUE]
    /\ session = NoSession
    /\ idleCheckInterval = FALSE
    /\ sb = [n \in 1..MaxSessions |->
                IF n = Adapter
                    THEN [handle |-> TRUE, remote |-> "alive", expired |-> FALSE,
                          initTime |-> 1, lastActivityTime |-> 1]
                ELSE NoSandbox]
    /\ ts = [n \in 1..MaxSessions |-> "none"]
    /\ tn = [t \in 1..MaxTunnels |-> NoTunnel]
    /\ nSandboxes = 0
    /\ nTunnels = 0
    /\ tunnelHealth = HealthyBaseline
    /\ pc = [p \in Procs |-> "off"]
    /\ loc = [p \in Procs |-> NoLocals]
    /\ hCall = NoCall
    /\ hRet = NoReturn
    /\ hFailed = FALSE
    /\ nCalls = 0
    /\ tm = NoClient
    /\ sandboxInstance = 0
    /\ rq = NoRequest
    /\ nRequests = 0
    /\ localFs \in {[p \in LocalPaths |-> IF p = source THEN content ELSE absent] :
                        source \in SourcePaths, content \in Contents}
    /\ sandboxFs \in [SandboxPaths -> Contents \cup {absent}]
    /\ xf = NoTransfer
    /\ cli = NoCli
    /\ ini = NoInitialize
    /\ environment = NoEnvironment
    /\ pathCheck = NoPathCheck
    /\ mgr = NoManager
    /\ fuzzy = NoFuzzy
    /\ pace = NoPace

\* The caller uploads a local file and downloads sandbox files to other
\* local paths; the adapter may be cleaned up between two calls.
NextTransfer ==
    \/ (\E localPath \in SourcePaths : \E sandboxPath \in SandboxPaths :
            \E written \in BOOLEAN : uploadFile(localPath, sandboxPath, written))
           /\ UNCHANGED <<pathVars, retryVars, sessionRest, ts, tm, serverVars, cliVars, unitVars>>
    \/ (\E sandboxPath \in SandboxPaths : \E localPath \in TargetPaths :
            \E read \in BOOLEAN : downloadFile(sandboxPath, localPath, read))
           /\ UNCHANGED <<pathVars, retryVars, sessionRest, ts, tm, serverVars, cliVars, unitVars>>
    \/ Cleanup(Adapter) /\ UNCHANGED <<pathVars, sessionRest, tm, transferVars, cliVars, unitVars>>

SpecTransfer == InitTransfer /\ [][NextTransfer]_vars

\* the variables of the session specification other than the clock
sessionButNow == <<config, tunnelConfig, session, idleCheckInterval, sb, ts, tn,
                   nSandboxes, nTunnels, tunnelHealth, pc, loc, hCall, hRet,
                   hFailed, nCalls>>

InitInitialize ==
    /\ pathPc = "idle"
    /\ pathIn = NoPath
    /\ pathOut = NoPath
    /\ pathOut2 = NoPath
    /\ rPc = "idle"
    /\ rOptions = RestOptions
    /\ rAttempt = 0
    /\ rRaised = <<>>
    /\ rInvocations = 0
    /\ rLastError = NoAttemptsMade
    /\ rThrown = NoError
    /\ rOnRetry = 0
    /\ now = 1
    /\ config = FALSE
    /\ tunnelConfig = [externalUrl |-> FALSE, enabled |-> TRUE, autoStart |-> TRUE]
    /\ session = NoSession
    /\ idleCheckInterval = FALSE
    /\ sb = [n \in 1..MaxSessions |-> NoSandbox]
    /\ ts = [n \in 1..MaxSessions |-> "none"]
    /\ tn = [t \in 1..MaxTunnels |-> NoTunnel]
    /\ nSandboxes = 0
    /\ nTunnels = 0
    /\ tunnelHealth = HealthyBaseline
    /\ pc = [p \in Procs |-> "off"]
    /\ loc = [p \in Procs |-> NoLocals]
    /\ hCall = NoCall
    /\ hRet = NoReturn
    /\ hFailed = FALSE
    /\ nCalls = 0
    /\ tm = NoClient
    /\ sandboxInstance = 0
    /\ rq = NoRequest
    /\ nRequests = 0
    /\ localFs = [p \in LocalPaths |-> absent]
    /\ sandboxFs = [p \in SandboxPaths |-> absent]
    /\ xf = NoTransfer
    /\ cli = NoCli
    /\ ini = NoInitialize
    /\ environment = NoEnvironment
    /\ pathCheck = NoPathCheck
    /\ mgr = NoManager
    /\ fuzzy = NoFuzzy
    /\ pace = NoPace

\* Two callers share one adapter; each calls initialize() again once its
\* previous call has settled.
NextInitialize ==
    \/ (\E c \in Callers : Initialize(c))
           /\ UNCHANGED <<pathVars, retryVars, sessionButNow, tm, serverVars, transferVars, cliVars, environment, pathCheck, mgr, fuzzy, pace>>
    \/ (\E c \in Callers : \E created \in BOOLEAN : \E error \in CreateErrors :
            CreateSettles(c, created, error))
           /\ UNCHANGED <<pathVars, retryVars, sessionButNow, tm, serverVars, transferVars, cliVars, environment, pathCheck, mgr, fuzzy, pace>>
    \/ (\E c \in Callers : InitializeWake(c))
           /\ UNCHANGED <<pathVars, retryVars, sessionButNow, tm, serverVars, transferVars, cliVars, environment, pathCheck, mgr, fuzzy, pace>>
    \/ (\E c \in Callers : EnvironmentSettles(c))
           /\ UNCHANGED <<pathVars, retryVars, sessionButNow, tm, serverVars, transferVars, cliVars, environment, pathCheck, mgr, fuzzy, pace>>
    \/ InitializeClock
           /\ UNCHANGED <<pathVars, retryVars, sessionButNow, tm, serverVars, transferVars, cliVars, environment, pathCheck, mgr, fuzzy, pace>>

SpecInitialize == InitInitialize /\ [][NextInitialize]_vars

InitEnvironment ==
    /\ pathPc = "idle"
    /\ pathIn = NoPath
    /\ pathOut = NoPath
    /\ pathOut2 = NoPath
    /\ rPc = "idle"
    /\ rOptions = RestOptions
    /\ rAttempt = 0
    /\ rRaised = <<>>
    /\ rInvocations = 0
    /\ rLastError = NoAttemptsMade
    /\ rThrown = NoError
    /\ rOnRetry = 0
    /\ now = 1
    /\ config = FALSE
    /\ tunnelConfig = [externalUrl |-> FALSE, enabled |-> TRUE, autoStart |-> TRUE]
    /\ session = NoSession
    /\ idleCheckInterval = FALSE
    /\ sb = [n \in 1..MaxSessions |-> NoSandbox]
    /\ ts = [n \in 1..MaxSessions |-> "none"]
    /\ tn = [t \in 1..MaxTunnels |-> NoTunnel]
    /\ nSandboxes = 0
    /\ nTunnels = 0
    /\ tunnelHealth = HealthyBaseline
    /\ pc = [p \in Procs |-> "off"]
    /\ loc = [p \in Procs |-> NoLocals]
    /\ hCall = NoCall
    /\ hRet = NoReturn
    /\ hFailed = FALSE
    /\ nCalls = 0
    /\ tm = NoClient
    /\ sandboxInstance = 0
    /\ rq = NoRequest
    /\ nRequests = 0
    /\ localFs = [p \in LocalPaths |-> absent]
    /\ sandboxFs = [p \in SandboxPaths |-> absent]
    /\ xf = NoTransfer
    /\ cli = NoCli
    /\ ini = NoInitialize
    /\ environment \in [filterSensitive : BOOLEAN,
                      processEnv : [Runs -> ProcessEnvs],
                      pc : {[r \in Runs |-> "start"]},
                      envVars : {[r \in Runs |-> NoEnvVars]},
                      stored : {[r \in Runs |-> NoEnvVars]}]
    /\ pathCheck = NoPathCheck
    /\ mgr = NoManager
    /\ fuzzy = NoFuzzy
    /\ pace = NoPace

\* Two runs of runAgentWithTask, for every pair of process environments.
NextEnvironment ==
    \/ (\E r \in Runs : CollectEnvironment(r))
           /\ UNCHANGED <<pathVars, retryVars, sessionVars, tm, serverVars, transferVars, cliVars, ini, pathCheck, mgr, fuzzy, pace>>
    \/ (\E r \in Runs : SetEnvironmentVariables(r))
           /\ UNCHANGED <<pathVars, retryVars, sessionVars, tm, serverVars, transferVars, cliVars, ini, pathCheck, mgr, fuzzy, pace>>

SpecEnvironment == InitEnvironment /\ [][NextEnvironment]_vars

InitValidate ==
    /\ pathPc = "idle"
    /\ pathIn = NoPath
    /\ pathOut = NoPath
    /\ pathOut2 = NoPath
    /\ rPc = "idle"
    /\ rOptions = RestOptions
    /\ rAttempt = 0
    /\ rRaised = <<>>
    /\ rInvocations = 0
    /\ rLastError = NoAttemptsMade
    /\ rThrown = NoError
    /\ rOnRetry = 0
    /\ now = 1
    /\ config = FALSE
    /\ tunnelConfig = [externalUrl |-> FALSE, enabled |-> TRUE, autoStart |-> TRUE]
    /\ session = NoSession
    /\ idleCheckInterval = FALSE
    /\ sb = [n \in 1..MaxSessions |-> NoSandbox]
    /\ ts = [n \in 1..MaxSessions |-> "none"]
    /\ tn = [t \in 1..MaxTunnels |-> NoTunnel]
    /\ nSandboxes = 0
    /\ nTunnels = 0
    /\ tunnelHealth = HealthyBaseline
    /\ pc = [p \in Procs |-> "off"]
    /\ loc = [p \in Procs |-> NoLocals]
    /\ hCall = NoCall
    /\ hRet = NoReturn
    /\ hFailed = FALSE
    /\ nCalls = 0
    /\ tm = NoClient
    /\ sandboxInstance = 0
    /\ rq = NoRequest
    /\ nRequests = 0
    /\ localFs = [p \in LocalPaths |-> absent]
    /\ sandboxFs = [p \in SandboxPaths |-> absent]
    /\ xf = NoTransfer
    /\ cli = NoCli
    /\ ini = NoInitialize
    /\ environment = NoEnvironment
    /\ pathCheck \in [pc : {"start"}, path : ValidatedPaths, result : {createResult}]
    /\ mgr = NoManager
    /\ fuzzy = NoFuzzy
    /\ pace = NoPace

\* validateSandboxPath is called once, for every path of the inputs.
NextValidate ==
    \/ Validate
           /\ UNCHANGED <<pathVars, retryVars, sessionVars, tm, serverVars, transferVars, cliVars, ini, environment, mgr, fuzzy, pace>>

SpecValidate == InitValidate /\ [][NextValidate]_vars

InitLoop ==
    /\ pathPc = "idle"
    /\ pathIn = NoPath
    /\ pathOut = NoPath
    /\ pathOut2 = NoPath
    /\ rPc = "idle"
    /\ rOptions = RestOptions
    /\ rAttempt = 0
    /\ rRaised = <<>>
    /\ rInvocations = 0
    /\ rLastError = NoAttemptsMade
    /\ rThrown = NoError
    /\ rOnRetry = 0
    /\ now = 1
    /\ config = FALSE
    /\ tunnelConfig = [externalUrl |-> FALSE, enabled |-> TRUE, autoStart |-> TRUE]
    /\ session = NoSession
    /\ idleCheckInterval = FALSE
    /\ sb = [n \in 1..MaxSessions |-> NoSandbox]
    /\ ts = [n \in 1..MaxSessions |-> "none"]
    /\ tn = [t \in 1..MaxTunnels |-> NoTunnel]
    /\ nSandboxes = 0
    /\ nTunnels = 0
    /\ tunnelHealth = HealthyBaseline
    /\ pc = [p \in Procs |-> "off"]
    /\ loc = [p \in Procs |-> NoLocals]
    /\ hCall = NoCall
    /\ hRet = NoReturn
    /\ hFailed = FALSE
    /\ nCalls = 0
    /\ tm = NoClient
    /\ sandboxInstance = 0
    /\ rq = NoRequest
    /\ nRequests = 0
    /\ localFs = [p \in LocalPaths |-> absent]
    /\ sandboxFs = [p \in SandboxPaths |-> absent]
    /\ xf = NoTransfer
    /\ cli = NoCli
    /\ ini = NoInitialize
    /\ environment = NoEnvironment
    /\ pathCheck = NoPathCheck
    /\ mgr = NoManager
    /\ fuzzy = NoFuzzy
    /\ pace = NoPace

\* The interactive loop, the manager's operations it awaits, and the idle sweep.
NextLoop ==
    \/ LoopRunAgent /\ UNCHANGED <<pathVars, retryVars, sessionVars, tm, serverVars, transferVars, ini, environment, pathCheck, fuzzy, pace>>
    \/ (\E line \in Tasks \cup CommandLines : LoopQuestion(line))
           /\ UNCHANGED <<pathVars, retryVars, sessionVars, tm, serverVars, transferVars, ini, environment, pathCheck, fuzzy, pace>>
    \/ (\E ok \in BOOLEAN : LoopResetSettles(ok))
           /\ UNCHANGED <<pathVars, retryVars, sessionVars, tm, serverVars, transferVars, ini, environment, pathCheck, fuzzy, pace>>
    \/ LoopContextAnswered /\ UNCHANGED <<pathVars, retryVars, sessionVars, tm, serverVars, transferVars, ini, environment, pathCheck, fuzzy, pace>>
    \/ (\E ok, created, lost \in BOOLEAN : LoopSessionSettles(ok, created, lost))
           /\ UNCHANGED <<pathVars, retryVars, sessionVars, tm, serverVars, transferVars, ini, environment, pathCheck, fuzzy, pace>>
    \/ (\E ok, lost \in BOOLEAN : LoopTaskSettles(ok, lost))
           /\ UNCHANGED <<pathVars, retryVars, sessionVars, tm, serverVars, transferVars, ini, environment, pathCheck, fuzzy, pace>>
    \/ IdleSweep /\ UNCHANGED <<pathVars, retryVars, sessionVars, tm, serverVars, transferVars, ini, environment, pathCheck, fuzzy, pace>>
    \/ LoopExited /\ UNCHANGED <<pathVars, retryVars, sessionVars, tm, serverVars, transferVars, ini, environment, pathCheck, fuzzy, pace>>
    \/ LoopSigint /\ UNCHANGED <<pathVars, retryVars, sessionVars, tm, serverVars, transferVars, ini, environment, pathCheck, fuzzy, pace>>

SpecLoop == InitLoop /\ [][NextLoop]_vars

InitFuzzy ==
    /\ pathPc = "idle"
    /\ pathIn = NoPath
    /\ pathOut = NoPath
    /\ pathOut2 = NoPath
    /\ rPc = "idle"
    /\ rOptions = RestOptions
    /\ rAttempt = 0
    /\ rRaised = <<>>
    /\ rInvocations = 0
    /\ rLastError = NoAttemptsMade
    /\ rThrown = NoError
    /\ rOnRetry = 0
    /\ now = 1
    /\ config = FALSE
    /\ tunnelConfig = [externalUrl |-> FALSE, enabled |-> TRUE, autoStart |-> TRUE]
    /\ session = NoSession
    /\ idleCheckInterval = FALSE
    /\ sb = [n \in 1..MaxSessions |-> NoSandbox]
    /\ ts = [n \in 1..MaxSessions |-> "none"]
    /\ tn = [t \in 1..MaxTunnels |-> NoTunnel]
    /\ nSandboxes = 0
    /\ nTunnels = 0
    /\ tunnelHealth = HealthyBaseline
    /\ pc = [p \in Procs |-> "off"]
    /\ loc = [p \in Procs |-> NoLocals]
    /\ hCall = NoCall
    /\ hRet = NoReturn
    /\ hFailed = FALSE
    /\ nCalls = 0
    /\ tm = NoClient
    /\ sandboxInstance = 0
    /\ rq = NoRequest
    /\ nRequests = 0
    /\ localFs = [p \in LocalPaths |-> absent]
    /\ sandboxFs = [p \in SandboxPaths |-> absent]
    /\ xf = NoTransfer
    /\ cli = NoCli
    /\ ini = NoInitialize
    /\ environment = NoEnvironment
    /\ pathCheck = NoPathCheck
    /\ mgr = NoManager
    /\ fuzzy \in [pc : {"start"}, files : LocalDirs, filePath : RequestedUploadPaths,
                 result : {NotFound}]
    /\ pace = NoPace

\* fuzzyFindFile is called once for every directory and every requested path.
NextFuzzy ==
    \/ FuzzyFindFile
           /\ UNCHANGED <<pathVars, retryVars, sessionVars, tm, serverVars, transferVars, cliVars, ini, environment, pathCheck, mgr, pace>>

SpecFuzzy == InitFuzzy /\ [][NextFuzzy]_vars

InitPace ==
    /\ pathPc = "idle"
    /\ pathIn = NoPath
    /\ pathOut = NoPath
    /\ pathOut2 = NoPath
    /\ rPc = "calling"
    /\ rOptions \in PaceOptions
    /\ rAttempt = 0
    /\ rRaised = <<>>
    /\ rInvocations = 0
    /\ rLastError = NoAttemptsMade
    /\ rThrown = NoError
    /\ rOnRetry = 0
    /\ now = 1
    /\ config = FALSE
    /\ tunnelConfig = [externalUrl |-> FALSE, enabled |-> TRUE, autoStart |-> TRUE]
    /\ session = NoSession
    /\ idleCheckInterval = FALSE
    /\ sb = [n \in 1..MaxSessions |-> NoSandbox]
    /\ ts = [n \in 1..MaxSessions |-> "none"]
    /\ tn = [t \in 1..MaxTunnels |-> NoTunnel]
    /\ nSandboxes = 0
    /\ nTunnels = 0
    /\ tunnelHealth = HealthyBaseline
    /\ pc = [p \in Procs |-> "off"]
    /\ loc = [p \in Procs |-> NoLocals]
    /\ hCall = NoCall
    /\ hRet = NoReturn
    /\ hFailed = FALSE
    /\ nCalls = 0
    /\ tm = NoClient
    /\ sandboxInstance = 0
    /\ rq = NoRequest
    /\ nRequests = 0
    /\ localFs = [p \in LocalPaths |-> absent]
    /\ sandboxFs = [p \in SandboxPaths |-> absent]
    /\ xf = NoTransfer
    /\ cli = NoCli
    /\ ini = NoInitialize
    /\ environment = NoEnvironment
    /\ pathCheck = NoPathCheck
    /\ mgr = NoManager
    /\ fuzzy = NoFuzzy
    /\ pace = NoPace

\* One withRetry call with an onRetry callback, over the delay options.
NextPace ==
    \/ PaceInvokeReturns
           /\ UNCHANGED <<pathVars, sessionVars, tm, serverVars, transferVars, cliVars, ini, environment, pathCheck, mgr, fuzzy>>
    \/ (\E error \in PaceRaised(rInvocations + 1) : \E random \in Randoms :
            PaceInvokeRaises(error, random))
           /\ UNCHANGED <<pathVars, sessionVars, tm, serverVars, transferVars, cliVars, ini, environment, pathCheck, mgr, fuzzy>>
    \/ PaceWake
           /\ UNCHANGED <<pathVars, sessionVars, tm, serverVars, transferVars, cliVars, ini, environment, pathCheck, mgr, fuzzy>>

SpecPace == InitPace /\ [][NextPace]_vars

(***************************************************************************)
(* Properties.                                                             *)
(***************************************************************************)

\* ---- vocabulary of the session properties ----

\* sandbox n was created and is neither killed nor expired
liveSandbox(n) == sb[n].remote = "alive" /\ ~sb[n].expired

\* no operation of the manager is in progress
Quiescent == \A p \in Procs : pc[p] = "idle"

\* the three resources of the session main's call found were torn down
oldTornDown ==
    /\ tn[hCall.oldTunnel].state = "stopped"
    /\ ~tn[hCall.oldTunnel].timer
    /\ ts[hCall.oldId] = "stopped"
    /\ ~sb[hCall.oldId].handle
    /\ ~liveSandbox(hCall.oldId)

\* main's getOrCreateSession found a session whose sandbox is not alive
forcedRecreate == hCall.op = "goc" /\ hCall.oldId # 0 /\ ~hCall.alive

\* C1 (as the specification states it): getOrCreateSession returns the
\* existing session only when its sandbox was alive, not idle-timed-out and
\* not max-duration-exceeded, and the tunnel was healthy or the reconnection
\* made during the call succeeded.
C1_ReusedOnlyIfValid ==
    (hCall.op = "goc" /\ hRet.kind = "reused")
        => /\ hCall.alive
           /\ ~hCall.idleTimedOut
           /\ ~hCall.maxDurationExceeded
           /\ ~hCall.needsReconnection \/ hCall.reconnect = "ok"

\* C1: a state in which the session was returned although the reconnection of
\* its unhealthy tunnel failed; the session holds the stopped tunnel.
C1_ReusedAfterFailedReconnect ==
    /\ hCall.op = "goc"
    /\ hRet.kind = "reused"
    /\ hCall.reconnect = "failed"
    /\ session.tunnel = hCall.oldTunnel
    /\ tn[session.tunnel].state = "stopped"

\* C2 (as the specification states it): with no operation in progress, every
\* live sandbox is the current session's, with its tool server listening and
\* its tunnel open; and after a createSession that raised, neither the
\* sandbox nor the tool server that attempt created is left running.
C2_NeverPartiallyAlive ==
    /\ Quiescent =>
           \A n \in 1..MaxSessions :
               liveSandbox(n) => /\ session.id = n
                                 /\ ts[n] = "listening"
                                 /\ tn[session.tunnel].state = "active"
    /\ (hRet.kind = "threw" /\ hCall.createdSandbox # 0) =>
           /\ ~liveSandbox(hCall.createdSandbox)
           /\ ts[hCall.createdSandbox] # "listening"

\* C2: a state after createSession raised at the tool-server or tunnel step,
\* with the sandbox it created still alive and held by no session.
C2_SandboxLeftRunning ==
    /\ Quiescent
    /\ hRet.kind = "threw"
    /\ hCall.createdSandbox # 0
    /\ liveSandbox(hCall.createdSandbox)
    /\ session = NoSession

\* C3 (as the specification states it): when a getOrCreateSession call follows
\* one that returned the session, is made within idleTimeoutMs of the last use
\* and maxDurationMs of the creation, and finds the sandbox alive and the
\* tunnel healthy, it returns that same session with lastUsedAt refreshed and
\* creates no sandbox, tool server or tunnel.
C3_SecondCallReuses ==
    ( /\ hCall.op = "goc"
      /\ hCall.prev # 0
      /\ hCall.oldId = hCall.prev
      /\ hCall.inIdleWindow
      /\ hCall.inMaxWindow
      /\ hCall.alive
      /\ ~hCall.needsReconnection )
        => /\ hRet.kind = "reused"
           /\ hRet.id = hCall.prev
           /\ hRet.tunnel = hCall.oldTunnel
           /\ hRet.refreshed
           /\ hCall.createdSandbox = 0
           /\ hCall.createdTunnel = 0

\* C3: a state in which such a second call, made within the idle window of the
\* last use, tears the session down instead of returning it.
C3_SecondCallRecreates ==
    /\ hCall.op = "goc"
    /\ hCall.prev # 0
    /\ hCall.oldId = hCall.prev
    /\ hCall.inIdleWindow
    /\ hCall.inMaxWindow
    /\ hCall.alive
    /\ ~hCall.needsReconnection
    /\ hCall.idleTimedOut
    /\ hRet.kind # "reused"

\* C4: when getOrCreateSession finds the session's sandbox not alive, the old
\* tunnel, tool server and sandbox are all torn down before the call creates
\* a sandbox or a tunnel, and the session it returns is made of the sandbox,
\* tool server and tunnel this call created, none of them the old session's.
C4_ForcedRecreate ==
    forcedRecreate =>
        /\ (hCall.createdSandbox # 0 \/ hCall.createdTunnel # 0) => oldTornDown
        /\ pc["main"] \in {"cs_sandbox", "cs_env", "cs_listen", "cs_tunnel"}
               => oldTornDown
        /\ hRet.kind # "reused"
        /\ hRet.kind = "created" =>
               /\ oldTornDown
               /\ hRet.id = hCall.createdSandbox
               /\ hRet.tunnel = hCall.createdTunnel
               /\ hRet.id # hCall.oldId
               /\ hRet.tunnel # hCall.oldTunnel

\* C4: a forced recreate that returned its new session.
C4_Recreated ==
    /\ forcedRecreate
    /\ hRet.kind = "created"
    /\ session.id = hRet.id
    /\ ts[hRet.id] = "listening"
    /\ tn[hRet.tunnel].state = "active"

\* C5 (as the specification states it): after any interleaving of
\* getOrCreateSession, reset, cleanup and idle-sweep ticks (no creation and no
\* sandbox.kill() having failed), at most one sandbox is alive, and a sandbox
\* that is alive is the current session's.
C5_AtMostOneSandbox ==
    (Quiescent /\ ~hFailed) =>
        /\ Cardinality({n \in 1..MaxSessions : liveSandbox(n)}) <= 1
        /\ \A n \in 1..MaxSessions : liveSandbox(n) => session.id = n

\* C5: a state at rest, nothing having failed, with a live sandbox and no
\* current session.
C5_OrphanedSandbox ==
    /\ Quiescent
    /\ ~hFailed
    /\ session = NoSession
    /\ \E n \in 1..MaxSessions : liveSandbox(n)

\* ---- tunnel health ----

\* C11: when a failed health probe brings consecutiveFailures to the threshold
\* (3) or beyond, needsReconnection() is true; and after a successful probe
\* consecutiveFailures is 0, isHealthy is true and needsReconnection() is
\* false, whatever the count was before it.
C11_ProbesDriveReconnection ==
    /\ (tm.event = "probe_failed"
          /\ tunnelHealth.consecutiveFailures >= ReconnectThreshold)
           => needsReconnection
    /\ tm.event = "probe_ok"
           => /\ tunnelHealth.consecutiveFailures = 0
              /\ tunnelHealth.isHealthy
              /\ ~needsReconnection

\* C11: the state after one successful probe that found needsReconnection()
\* true through three failed probes.
C11_RecoveredByOneProbe ==
    /\ tm.event = "probe_ok"
    /\ tm.needed
    /\ tunnelHealth = HealthyBaseline
    /\ ~needsReconnection

\* C12 (as the specification states it): every step in which
\* getOrCreateSession validates the existing session and returns it without
\* attempting a tunnel reconnection is taken with tunnelHealth.isHealthy true.
C12_UnhealthyNeverReusedAsIs == [][GocReuse => tunnelHealth.isHealthy]_vars

\* C12: getOrCreateSession has returned the session with no reconnection
\* attempted, and the tunnel health record says isHealthy = false with fewer
\* than three failures counted.
C12_ReusedUnhealthy ==
    /\ hCall.op = "goc"
    /\ hRet.kind = "reused"
    /\ hCall.reconnect = "none"
    /\ ~hCall.needsReconnection
    /\ ~tunnelHealth.isHealthy
    /\ tunnelHealth.consecutiveFailures < ReconnectThreshold
    /\ tn[session.tunnel].state = "active"

\* C13 (as the specification states it): in every reachable state, isHealthy
\* is false only if consecutiveFailures has reached the threshold of 3.
C13_UnhealthyOnlyAtThreshold ==
    ~tunnelHealth.isHealthy
        => tunnelHealth.consecutiveFailures >= MAX_CONSECUTIVE_FAILURES

\* C13: the session's tunnel is open, one failure is counted and isHealthy is
\* already false.
C13_UnhealthyAfterOneError ==
    /\ session # NoSession
    /\ tn[session.tunnel].kind = "tunnel"
    /\ tn[session.tunnel].state = "active"
    /\ ~tunnelHealth.isHealthy
    /\ tunnelHealth.consecutiveFailures = 1

\* every tunnel started so far has been stopped, and none was started since
allTunnelsStopped ==
    /\ \E t \in 1..MaxTunnels : tn[t].kind = "tunnel"
    /\ \A t \in 1..MaxTunnels : tn[t].kind = "tunnel" => tn[t].state = "stopped"

\* C14 (as the specification states it): a stopped tunnel has no
\* health-monitoring timer; and from stopTunnel until the next tunnel is set
\* up, the health record is the healthy baseline (isHealthy = true,
\* consecutiveFailures = 0).
C14_StoppedStaysAtBaseline ==
    /\ \A t \in 1..MaxTunnels : tn[t].state = "stopped" => ~tn[t].timer
    /\ allTunnelsStopped => tunnelHealth = HealthyBaseline

\* C14: every tunnel is stopped, its timer cancelled, and the probe that was
\* in flight when stopTunnel ran has since counted a failure.
C14_LateProbeCounted ==
    /\ allTunnelsStopped
    /\ \A t \in 1..MaxTunnels : ~tn[t].timer /\ ~tn[t].probing
    /\ tunnelHealth.consecutiveFailures = 1

\* reconnectTunnelIfNeeded has returned, and nothing was called since
reconnectReturned == tm.op = "reconnect" /\ tm.pc = "idle"

\* C15, the part the code keeps: reconnectTunnelIfNeeded always returns a
\* handle; with a healthy tunnel it is the current one and no tunnel was
\* started; otherwise the current tunnel was stopped and the handle is the
\* new, open tunnel on success and the stopped one on failure.
C15_ReturnsNewOrStale ==
    reconnectReturned =>
        /\ tm.outcome \in {"current", "new", "stale"}
        /\ tm.result # 0
        /\ tm.outcome = "current" => nTunnels = tm.tunnelsBefore
        /\ tm.outcome = "new" =>
               /\ tm.result = nTunnels
               /\ nTunnels = tm.tunnelsBefore + 1
               /\ tn[tm.result].state = "active"
               /\ tn[tm.result].timer
               /\ \A t \in 1..tm.tunnelsBefore : tn[t].state = "stopped"
        /\ tm.outcome = "stale" =>
               /\ nTunnels = tm.tunnelsBefore
               /\ tn[tm.result].state = "stopped"
               /\ ~tn[tm.result].timer

\* C15 (as the specification states it): the above, and after a failed
\* reconnection the health record still reports the tunnel as unhealthy, as
\* long as nothing else has written the record since the call stopped the
\* tunnel.
C15_FailureVisibleInHealth ==
    /\ C15_ReturnsNewOrStale
    /\ (reconnectReturned /\ tm.outcome = "stale" /\ tm.event = "stop")
           => ~tunnelHealth.isHealthy

\* C15: reconnectTunnelIfNeeded returned the stale handle after a failed
\* start, and the health record is the healthy baseline stopTunnel left.
C15_FailedReconnectLooksHealthy ==
    /\ reconnectReturned
    /\ tm.outcome = "stale"
    /\ tm.event = "stop"
    /\ tn[tm.result].state = "stopped"
    /\ tunnelHealth = HealthyBaseline
    /\ ~needsReconnection

\* setupTunnel has returned or raised, and nothing was called since
setupDone == tm.op = "setup" /\ tm.pc = "idle"

\* the call made no TunnelResult with a tunnel and a health monitor
noTunnelStarted ==
    \A t \in (tm.tunnelsBefore + 1)..nTunnels : tn[t].kind = "url" /\ ~tn[t].timer

\* C16: for every combination of (TUNNEL_URL set, enabled, autoStart):
\* with TUNNEL_URL set setupTunnel returns that URL and starts no tunnel;
\* else with tunneling disabled it returns the local URL and starts no tunnel;
\* else with autoStart it awaits the tunnel start and returns the started
\* tunnel, or raises when every attempt failed; else it raises and starts no
\* tunnel.  It awaits a tunnel start in the autoStart case only.
C16_SetupPrecedence ==
    /\ tm.pc = "setup" =>
           /\ ~tunnelConfig.externalUrl
           /\ tunnelConfig.enabled
           /\ tunnelConfig.autoStart
    /\ setupDone =>
           IF tunnelConfig.externalUrl
               THEN /\ tm.outcome = "returned"
                    /\ tm.url = "TUNNEL_URL"
                    /\ noTunnelStarted
           ELSE IF ~tunnelConfig.enabled
               THEN /\ tm.outcome = "returned"
                    /\ tm.url = "localUrl"
                    /\ noTunnelStarted
           ELSE IF tunnelConfig.autoStart
               THEN \/ /\ tm.outcome = "returned"
                       /\ tm.url = "tunnel.url"
                       /\ tm.result = tm.tunnelsBefore + 1
                       /\ tn[tm.result].kind = "tunnel"
                       /\ tn[tm.result].state = "active"
                    \/ /\ tm.outcome = "threw"
                       /\ tm.result = 0
                       /\ nTunnels = tm.tunnelsBefore
           ELSE /\ tm.outcome = "threw"
                /\ tm.result = 0
                /\ nTunnels = tm.tunnelsBefore

\* C16: setupTunnel has returned the external URL although tunneling is
\* disabled in the configuration, and started nothing.
C16_ExternalUrlWins ==
    /\ setupDone
    /\ tunnelConfig.externalUrl
    /\ ~tunnelConfig.enabled
    /\ tm.outcome = "returned"
    /\ tm.url = "TUNNEL_URL"
    /\ tn[tm.result].kind = "url"

\* ---- cleanup, the idle sweep, reset ----

\* p is inside cleanup(), suspended at toolServer.stop() or sandbox.kill()
inCleanup(p) == pc[p] \in {"cl_stopping", "cl_killing"}

\* this step is the end of a cleanup() of p's
cleanupCompletes(p) ==
    \/ inCleanup(p) /\ ~inCleanup(p)'
    \/ /\ pc[p] = "idle"
       /\ ~inCleanup(p)'
       /\ IF p = "sweep" THEN SweepTick
          ELSE CallCleanup \/ CallReset \/ GocInvalid

\* the teardown steps come in the order tunnel, tool server, sandbox: while
\* cleanup waits for the server or for sandbox.kill(), the tunnel it took from
\* the session is stopped; while it waits for sandbox.kill(), the server is
\* closed too
teardownInOrder ==
    \A p \in Procs :
        /\ inCleanup(p)
               => tn[loc[p].tunnel].state = "stopped" /\ ~tn[loc[p].tunnel].timer
        /\ pc[p] = "cl_killing" => ts[loc[p].sandbox] # "listening"

\* C17, the part the code keeps in every interleaving: the teardown order,
\* and a cleanup() that ends always ends with no current session, whether
\* sandbox.kill() raised or not.
C17_EndsWithNoSession ==
    /\ []teardownInOrder
    /\ [][\A p \in Procs : cleanupCompletes(p) => session' = NoSession]_vars

\* C17 (as the specification states it): the above, and when a cleanup()
\* ends the manager has no idle-sweep timer.
C17_EndsWithNoSessionNoTimer ==
    /\ []teardownInOrder
    /\ [][\A p \in Procs :
             cleanupCompletes(p) => session' = NoSession /\ ~idleCheckInterval']_vars

\* C17: no operation is in progress, the manager has no session, and the
\* idle-sweep timer is running.
C17_TimerWithoutSession ==
    /\ Quiescent
    /\ session = NoSession
    /\ idleCheckInterval

\* the current session is that of sandbox n, and the sandbox reports it
\* idle-timed-out or past its maximum duration
timedOutSession(n) ==
    /\ session.id = n
    /\ isIdleTimedOut(n) \/ isMaxDurationExceeded(n)

\* main is at rest and calls nothing any more
noNewTask == pc["main"] = "idle" /\ nCalls = MaxCalls

\* the session of sandbox n was torn down: no current session, the adapter
\* released, the sandbox killed (unless a sandbox.kill() raised)
sweptAway(n) ==
    /\ session = NoSession
    /\ ~sb[n].handle
    /\ sb[n].remote = "killed" \/ hFailed

\* C18 (as the specification states it): when the current session is
\* idle-timed-out or past its maximum duration and no new task arrives, the
\* idle sweep eventually tears it down: the manager has no current session
\* and the session's sandbox is killed.
C18_SweepTearsDown ==
    \A n \in 1..MaxSessions : (timedOutSession(n) /\ noNewTask) ~> sweptAway(n)

\* C18, the part the code keeps: the same, for a session that times out
\* while no earlier cleanup() is still awaiting its teardown steps.
C18_SweepTearsDownAtRest ==
    \A n \in 1..MaxSessions :
        (timedOutSession(n) /\ noNewTask /\ pc["sweep"] = "idle") ~> sweptAway(n)

\* C18: a new session timed out while the sweep's cleanup of the previous
\* one was still awaiting, the sweep's cleanup then ended, and the new
\* session's sandbox is alive with no session and nothing left to run.
C18_TimedOutSessionOrphaned ==
    /\ Quiescent
    /\ noNewTask
    /\ ~hFailed
    /\ session = NoSession
    /\ \E n \in 1..MaxSessions :
           /\ liveSandbox(n)
           /\ sb[n].handle
           /\ isIdleTimedOut(n) \/ isMaxDurationExceeded(n)

\* C19 (as the specification states it): for the current session,
\* isIdleTimedOut() is true when lastUsedAt = now - (idleTimeoutMs + 1), and
\* false when lastUsedAt = now and as long as no more than idleTimeoutMs has
\* passed since lastUsedAt was refreshed; and the sweep starts no teardown of
\* a session used within idleTimeoutMs and within its maximum duration.
C19_IdleFollowsLastUse ==
    /\ [](session # NoSession =>
             /\ now - session.lastUsedAt = IdleTimeoutMs + 1
                    => isIdleTimedOut(session.id)
             /\ now - session.lastUsedAt <= IdleTimeoutMs
                    => ~isIdleTimedOut(session.id))
    /\ [][SweepTick => \/ now - session.lastUsedAt > IdleTimeoutMs
                       \/ isMaxDurationExceeded(session.id)]_vars

\* C19: getOrCreateSession has just returned the session with lastUsedAt
\* refreshed no more than idleTimeoutMs ago, and isIdleTimedOut() is true.
C19_IdleAlthoughJustUsed ==
    /\ hCall.op = "goc"
    /\ hRet.kind = "reused"
    /\ session.id = hRet.id
    /\ now - session.lastUsedAt <= IdleTimeoutMs
    /\ isIdleTimedOut(session.id)
    /\ ~isMaxDurationExceeded(session.id)

\* the session reset() found was torn down: its tunnel stopped with its
\* monitor, its tool server closed, its adapter released after sandbox.kill()
\* was awaited (the sandbox is killed or expired, unless a kill() raised)
resetTornDown ==
    /\ tn[hCall.oldTunnel].state = "stopped"
    /\ ~tn[hCall.oldTunnel].timer
    /\ ts[hCall.oldId] = "stopped"
    /\ ~sb[hCall.oldId].handle
    /\ ~liveSandbox(hCall.oldId) \/ hFailed

executeWithCode ==
    /\ rq.path = "/execute"
    /\ rq.method = "POST"
    /\ rq.body = "object"
    /\ rq.parameters.given
    /\ ~falsy(rq.parameters.code)

\* C21: every POST /execute with a non-empty code parameter is answered with
\* status 200 and a body that holds success, whatever the sandbox does (zero
\* or non-zero exit, local timeout, an exception of the adapter, a sandbox
\* already cleaned up): never a 5xx, and never left without an answer: while
\* it is in the handler it waits for the sandbox call, the local timer or the
\* sleep, and each of these, when it settles, answers the request or uses up
\* one of the boundedly many attempts.
C21_ExecuteAnswered200 ==
    /\ [](executeWithCode /\ rq.pc = "answered" =>
              rq.status = 200 /\ rq.success \in {"true", "false"})
    /\ [](executeWithCode /\ rq.pc \notin {"none", "answered"} =>
              /\ rq.pc = "executing"
              /\ rPc \in {"calling", "sleeping"}
              /\ rInvocations + rAttempt < 2 * rOptions.maxAttempts)
    /\ [][rq.pc = "executing" /\ <<rq, retryVars>>' # <<rq, retryVars>> =>
              \/ rq'.pc = "answered"
              \/ rInvocations' + rAttempt' > rInvocations + rAttempt]_vars

\* C21: an execution on an adapter that was cleaned up meanwhile, answered
\* with 200 and success = false.
C21_AnsweredAfterCleanup ==
    /\ executeWithCode
    /\ rq.pc = "answered"
    /\ rq.status = 200
    /\ rq.success = "false"
    /\ ~rq.threw
    /\ rInvocations >= 1
    /\ ~sb[rq.target].handle

\* the request is a POST to one of the four tool end points
toolRequest ==
    /\ rq.method = "POST"
    /\ rq.path \in {"/execute", "/upload", "/download", "/check-file"}

\* the body is JSON text that gives an object, and a parameter the end point
\* requires is absent or empty
lacksRequired ==
    /\ toolRequest
    /\ rq.body \in {"empty", "object"}
    /\ \/ ~rq.parameters.given
       \/ rq.path = "/execute" /\ falsy(rq.parameters.code)
       \/ rq.path = "/upload" /\ falsy(rq.parameters.local_path)
       \/ rq.path = "/download" /\ falsy(rq.parameters.sandbox_path)
       \/ rq.path = "/download" /\ falsy(rq.parameters.local_path)
       \/ rq.path = "/check-file" /\ falsy(rq.parameters.path)

\* C22: a request to execute, upload, download or check-file that lacks a
\* required parameter is answered with 400 and no sandbox or file-system
\* operation is made for it; a request whose body is malformed is answered
\* with a 4xx, not a 5xx; a 5xx is answered only for an unexpected internal
\* exception, which none of the requests received here provokes.
C22_ClientErrorsAre4xx ==
    rq.pc = "answered" =>
        /\ lacksRequired =>
               /\ rq.status = 400
               /\ ~rq.sandboxOps /\ ~rq.fsOps /\ rq.target = 0
        /\ toolRequest /\ rq.body \in {"malformed", "null"} =>
               rq.status \in 400..499
        /\ rq.status < 500

\* C22: a request whose body is not JSON, answered with 500.
C22_MalformedBodyGets500 ==
    /\ rq.pc = "answered"
    /\ toolRequest
    /\ rq.body = "malformed"
    /\ rq.status = 500

\* C22, the part that holds: a missing parameter in a body that parses to an
\* object is answered with 400 before any sandbox or file-system operation,
\* and a 400 is answered for nothing else.
C22_MissingParameterGets400 ==
    rq.pc = "answered" =>
        /\ lacksRequired =>
               /\ rq.status = 400
               /\ ~rq.sandboxOps /\ ~rq.fsOps /\ rq.target = 0
        /\ rq.status = 400 => lacksRequired

\* ---- vocabulary of the retry properties ----

lastRaised == rRaised[Len(rRaised)]

\* every value fn raised is retryable under the options
allRetryable ==
    \A i \in 1..Len(rRaised) :
        LET e == IF rRaised[i].isError THEN rRaised[i]
                 ELSE [isError |-> TRUE, name |-> ErrorName,
                       message |-> rRaised[i].message, id |-> 0]
        IN  /\ ~matchesAny(e, rOptions.nonRetryableErrors)
            /\ Len(rOptions.retryableErrors) = 0
                   \/ matchesAny(e, rOptions.retryableErrors)

\* the first raised value matches a non-retryable pattern, by name or message
firstIsNonRetryable ==
    /\ Len(rRaised) >= 1
    /\ LET e == IF rRaised[1].isError THEN rRaised[1]
                ELSE [isError |-> TRUE, name |-> ErrorName,
                      message |-> rRaised[1].message, id |-> 0]
       IN  matchesAny(e, rOptions.nonRetryableErrors)

\* C6: with maxAttempts = N >= 1 and an operation that always raises a
\* retryable error, withRetry gives up only after exactly N invocations, and
\* raises the last error.
C6_ExactlyMaxAttempts ==
    /\ (rPc = "thrown" /\ allRetryable) =>
           /\ rInvocations = rOptions.maxAttempts
           /\ rThrown.message = lastRaised.message
           /\ lastRaised.isError => rThrown = lastRaised
    /\ (rPc \in {"calling", "sleeping"} /\ allRetryable) =>
           rInvocations < rOptions.maxAttempts

\* C6: withRetry gave up after more than one invocation, all retryable.
C6_GaveUpAfterAllAttempts ==
    /\ rPc = "thrown"
    /\ allRetryable
    /\ rOptions.maxAttempts >= 3
    /\ rInvocations = rOptions.maxAttempts
    /\ rOnRetry = rOptions.maxAttempts - 1

\* C7: an error that matches nonRetryableErrors is raised after exactly one
\* invocation, whatever maxAttempts is and even if it also matches
\* retryableErrors.
C7_NonRetryableOnce ==
    firstIsNonRetryable =>
        /\ rPc = "thrown"
        /\ rInvocations = 1
        /\ rOnRetry = 0
        /\ rThrown.message = rRaised[1].message
        /\ rRaised[1].isError => rThrown = rRaised[1]

\* C7: a non-retryable error that also matches retryableErrors, raised at
\* once although attempts were left.
C7_NonRetryableAlsoRetryable ==
    /\ firstIsNonRetryable
    /\ rRaised[1].isError
    /\ Len(rOptions.retryableErrors) > 0
    /\ matchesAny(rRaised[1], rOptions.retryableErrors)
    /\ rOptions.maxAttempts >= 2
    /\ rPc = "thrown"

\* C8 (as the specification states it): the value withRetry raises when it
\* gives up is the very value the operation raised last, for every kind of
\* raised value.
C8_RaisedUnchanged == rPc = "thrown" => rThrown = lastRaised

\* C8, amended: an Error instance is raised as it is, the same object; any
\* other raised value v is raised as a new Error whose message is String(v).
C8_ErrorsUnchangedOthersWrapped ==
    rPc = "thrown" =>
        IF lastRaised.isError THEN rThrown = lastRaised
        ELSE /\ rThrown.isError
             /\ rThrown.name = ErrorName
             /\ rThrown.message = lastRaised.message
             /\ rThrown.id = 0

\* C8: withRetry gave up on a raised value that is not an Error instance.
C8_GaveUpOnNonError ==
    /\ rPc = "thrown"
    /\ ~lastRaised.isError
    /\ rThrown # lastRaised
    /\ rThrown.message = lastRaised.message

\* ---- executeCode and its retries ----

\* the n-th value executeOnce raised is the local timer's error
timedOutAt(n) == rRaised[n].message = ExecutionTimeout.message

\* C23: in one executeCode call the sandbox command is invoked at most
\* maxAttempts times; each call starts its attempt counter afresh, so what
\* earlier requests did neither raises nor lowers the attempts of a later
\* call: a call that meets retryable errors only gives up after exactly
\* maxAttempts invocations.
C23_AtMostMaxAttempts ==
    /\ [](executeWithCode =>
              /\ rq.runs <= rInvocations
              /\ rInvocations <= rOptions.maxAttempts)
    /\ [](executeWithCode /\ rq.pc = "answered" /\ rPc = "thrown" /\ allRetryable =>
              rInvocations = rOptions.maxAttempts)
    /\ [][rq.pc = "none" /\ rq'.pc = "executing" =>
              rAttempt' = 0 /\ rInvocations' = 0]_vars

\* C23: the second request of the process, under the default ceiling of 2,
\* invoked the sandbox command twice and gave up.
C23_SecondCallUsedAllAttempts ==
    /\ nRequests = 2
    /\ executeWithCode
    /\ rq.pc = "answered"
    /\ rOptions.maxAttempts = 2
    /\ rq.runs = 2
    /\ rPc = "thrown"

\* C24: an execution that fails with a syntax, type, reference, name or
\* indentation error is not retried, even when the error text also holds a
\* retryable pattern: executeOnce, and with it the sandbox command, is
\* invoked once in that call, and a result with success = false is returned.
C24_CodeErrorsNotRetried ==
    executeWithCode /\ firstIsNonRetryable =>
        /\ rq.pc = "answered"
        /\ rInvocations = 1
        /\ rq.runs <= 1
        /\ rPc = "thrown"
        /\ ~rq.threw
        /\ rq.success = "false"

\* C24: a syntax error whose text also holds "connection", raised by the
\* sandbox command with attempts left, and answered after that one attempt.
C24_SyntaxErrorWithConnection ==
    /\ executeWithCode
    /\ firstIsNonRetryable
    /\ matchesAny(rRaised[1], rOptions.retryableErrors)
    /\ rOptions.maxAttempts >= 2
    /\ rq.pc = "answered"
    /\ rq.runs = 1
    /\ rq.success = "false"

\* C25: executeCode on an adapter that holds a sandbox does not raise: every
\* failure of the sandbox call comes back as a result with success = false.
\* When the local timer fires first, the call returns at once a result with
\* timeout = true: the sandbox call is not waited for, no attempt follows.
C25_FailuresAreResults ==
    /\ [](executeWithCode /\ rq.threw => ~sb[rq.target].handle /\ rInvocations = 0)
    /\ [](executeWithCode /\ rPc = "thrown" =>
              rq.pc = "answered" /\ ~rq.threw /\ rq.success = "false")
    /\ [](executeWithCode =>
              \A n \in 1..Len(rRaised) :
                  timedOutAt(n) =>
                      /\ n = Len(rRaised)
                      /\ rq.pc = "answered"
                      /\ rq.timeout
                      /\ rq.success = "false")
    /\ [][rq.pc = "none" /\ rq'.pc = "answered" /\ rq'.threw => ~sb[rq'.target].handle]_vars

\* C25: the local timer fired in the second attempt, with an attempt left,
\* and the call returned a result with timeout = true.
C25_TimedOutWithAttemptsLeft ==
    /\ executeWithCode
    /\ rq.pc = "answered"
    /\ Len(rRaised) = 2
    /\ timedOutAt(2)
    /\ rOptions.maxAttempts = 3
    /\ rq.timeout
    /\ rq.runs = 2

\* C26: every request a tool server handles on a sandbox is handled on the
\* sandbox that server was constructed with (server n is constructed with
\* adapter n), whatever the order of the starts and stops in the process.
C26_RequestsRunOnOwnSandbox ==
    rq.pc # "none" /\ rq.target # 0 => rq.target = rq.server

\* C26: a request received by a listening server ran its code on the
\* sandbox of the other server of the process.
C26_RanOnOtherSandbox ==
    /\ executeWithCode
    /\ rq.pc = "answered"
    /\ ts[rq.server] = "listening"
    /\ rq.target # 0
    /\ rq.target # rq.server
    /\ rq.runs >= 1
    /\ rq.success = "true"

\* ---- file transfer through the Sandbox Adapter ----

\* the last call downloaded a sandbox file that an upload had written
roundTrip == xf.op = "download" /\ xf.error = "none" /\ xf.source # <<>>

\* the bytes hold no ill-formed UTF-8 (of the bytes of the model: no 0xFF)
validText(bytes) == \A i \in 1..Len(bytes) : bytes[i] < 128

\* the source and the target of the round trip have the same extension
sameExtension ==
    toLowerCase(extname(xf.source)) = toLowerCase(extname(xf.localPath))

\* the bytes of the source of the last call, and its destination
sourceOfCall ==
    IF xf.op = "upload" THEN localFs[xf.localPath] ELSE sandboxFs[xf.sandboxPath]

destinationOfCall ==
    IF xf.op = "upload" THEN sandboxFs[xf.sandboxPath] ELSE localFs[xf.localPath]

\* C27: a local file uploaded and then downloaded to another local path of
\* the same extension comes back byte for byte, for a text file (.csv, valid
\* text) and for a binary file (.png), whatever its bytes.
C27_RoundTripIdentical ==
    roundTrip /\ sameExtension
              /\ (isBinary(xf.localPath) \/ validText(localFs[xf.source])) =>
        localFs[xf.localPath] = localFs[xf.source]

\* C27: a .png file with a byte that is no text came back with other bytes.
C27_BinaryCameBackChanged ==
    /\ roundTrip
    /\ sameExtension
    /\ isBinary(xf.localPath)
    /\ ~validText(localFs[xf.source])
    /\ localFs[xf.localPath] # localFs[xf.source]

\* C27, the part that holds: a file of valid text comes back byte for byte,
\* through the text branch and through the base64 branch of downloadFile.
C27_ValidTextRoundTrips ==
    roundTrip /\ validText(localFs[xf.source]) =>
        localFs[xf.localPath] = localFs[xf.source]

\* C28: uploadFile and downloadFile reject a file larger than the ceiling
\* with an error, and write nothing to the destination.
C28_OversizeRejected ==
    xf.op # "none" /\ sourceOfCall # absent
                   /\ fileSizeMB(sourceOfCall) > maxFileSizeMB =>
        xf.error # "none" /\ destinationOfCall = xf.before

\* C28: a sandbox file larger than the ceiling was downloaded and written to
\* the local path.
C28_OversizeDownloaded ==
    /\ xf.op = "download"
    /\ xf.error = "none"
    /\ fileSizeMB(sandboxFs[xf.sandboxPath]) > maxFileSizeMB
    /\ localFs[xf.localPath] # xf.before
    /\ fileSizeMB(localFs[xf.localPath]) > maxFileSizeMB

\* C28, the part that holds: uploadFile rejects a local file larger than the
\* ceiling and leaves the sandbox file as it was.
C28_OversizeUploadRejected ==
    xf.op = "upload" /\ fileSizeMB(sourceOfCall) > maxFileSizeMB
                     /\ sourceOfCall # absent =>
        xf.error \in {"too large", "not initialized"} /\ destinationOfCall = xf.before

\* ---- fuzzy upload ----

\* the response of an upload that succeeded
uploadSucceeded ==
    rq.path = "/upload" /\ rq.pc = "answered" /\ rq.success = "true"

\* s ends with suffix
endsWith(s, suffix) ==
    /\ Len(suffix) <= Len(s)
    /\ SubSeq(s, Len(s) - Len(suffix) + 1, Len(s)) = suffix

\* C29: the response of a successful /upload carries fuzzy_match = true and
\* original_path exactly when the local file uploaded is not the requested
\* path; original_path is then the local_path of the request; the default
\* sandbox_path ends in the name of the file uploaded; an exact match is
\* not flagged.
C29_FuzzyMatchReported ==
    uploadSucceeded =>
        /\ rq.fuzzy_match <=> rq.local_path # resolve(rq.parameters.local_path)
        /\ rq.fuzzy_match <=> rq.original_path # undefined
        /\ rq.fuzzy_match => rq.original_path = rq.parameters.local_path
        /\ falsy(rq.parameters.sandbox_path) =>
               endsWith(rq.sandbox_path, <<"/">> \o posixBasename(rq.local_path))

\* C29: ./report was requested without a sandbox_path and report.md was
\* uploaded, reported as a fuzzy match.
C29_ReportMdForReport ==
    /\ uploadSucceeded
    /\ rq.parameters.local_path = <<".", "/", "r", "e", "p", "o", "r", "t">>
    /\ rq.parameters.sandbox_path = undefined
    /\ rq.local_path = <<"/", "w", "/", "r", "e", "p", "o", "r", "t", ".", "m", "d">>
    /\ rq.fuzzy_match
    /\ rq.original_path = rq.parameters.local_path
    /\ rq.sandbox_path = defaultInputPrefix \o <<"r", "e", "p", "o", "r", "t", ".", "m", "d">>

\* ---- validation before any sandbox work ----

\* the call or the turn under way read a task (in the loop an empty line is
\* the exit command)
taskRead ==
    /\ cli.task.kind = "task"
    /\ cli.pc # "off"
    /\ cli.mode = "task" \/ cli.task.length > 0

\* C30: a task whose validation result holds an error is rejected before any
\* sandbox, tool server or tunnel work, in the interactive loop and in
\* runAgentWithTask: for that task no sandbox is created, getOrCreateSession
\* is not called, no tunnel is started.  Warnings alone never block a task.
C30_InvalidTaskRejectedFirst ==
    /\ taskRead /\ validateTaskInputs(cli.task).errors # <<>> =>
           /\ cli.work = {}
           /\ cli.pc \in {"prompt", "threw", "exited"}
    /\ taskRead /\ validateTaskInputs(cli.task).errors = <<>> => ~cli.rejected
    /\ cli.rejected =>
           /\ cli.validation = validateTaskInputs(cli.task)
           /\ cli.validation.errors # <<>>

\* C30: the second task of the interactive loop, read while a session is
\* held, names a file that does not exist: it is back at the prompt with
\* nothing done for it.
C30_RejectedInLoop ==
    /\ cli.mode = "interactive"
    /\ cli.nTasks = 2
    /\ cli.sessionInitialized /\ cli.session
    /\ cli.validation.errors = <<"File not found">>
    /\ cli.validation.warnings # <<>>
    /\ cli.rejected
    /\ cli.pc = "prompt"
    /\ cli.work = {}

\* C30: runAgentWithTask raised on a task that is too long.
C30_RejectedInCall ==
    /\ cli.mode = "task"
    /\ cli.validation.errors = <<"Task too long">>
    /\ cli.rejected
    /\ cli.pc = "threw"
    /\ cli.work = {}

\* C30: a task with warnings and no error went on to the sandbox.
C30_WarningsPass ==
    /\ cli.validation.errors = <<>>
    /\ Len(cli.validation.warnings) >= 2
    /\ ~cli.rejected
    /\ "sandbox" \in cli.work

\* ---- initialize() on one adapter ----

\* C31 as stated: however many initialize() calls are made on one adapter,
\* one after the other or while an earlier one is still awaited, the sandbox
\* service creates at most one sandbox for it.
C31_AtMostOneSandboxCreated == ini.created <= 1

\* two calls overlapped: both found this.sandbox null, both got a sandbox
\* from the service, and the adapter refers to the second one only
C31_TwoSandboxesForOneAdapter ==
    /\ ini.created = 2
    /\ ini.sandbox = 2
    /\ \A c \in Callers : ini.pc[c] = "returned" /\ ~ini.found[c]

\* C31, the part that holds: a call made when the adapter holds a sandbox
\* returns at once, and neither it nor anything else creates a sandbox or
\* changes the adapter's sandbox while no creation is in flight.
C31_ReadyCallCreatesNothing ==
    [][\A c \in Callers :
          Initialize(c) /\ initialized =>
              /\ ini'.pc[c] = "returned"
              /\ ini'.created = ini.created
              /\ ini'.sandbox = ini.sandbox]_vars

\* C31, sequential calls: while only caller 1 has called, each call after the
\* previous one settled, the service created one sandbox at most
C31_SequentialCallsCreateOne == ini.pc[2] = "idle" => ini.created <= 1

\* ---- the environment forwarded to the sandbox ----

\* the name is sensitive: upper-cased, it contains a configured pattern
sensitiveName(key) ==
    \E k \in 1..Len(sensitivePatterns) :
        includes(toUpperCase(key), sensitivePatterns[k])

\* the two process environments differ only in sensitive-named variables
differOnlyInSensitive ==
    \A key \in EnvNames :
        ~sensitiveName(key) => environment.processEnv[1][key] = environment.processEnv[2][key]

\* C32: with sensitive filtering enabled, the record the adapter is given
\* holds no sensitive-named variable, holds every other variable of the
\* process environment that has a non-empty value, with that value, and
\* holds nothing else; and two runs whose process environments differ only
\* in sensitive-named variables hand the adapter the same record.
C32_SensitiveNeverForwarded ==
    environment.filterSensitive =>
        /\ \A r \in Runs : environment.pc[r] = "set" =>
               \A key \in EnvNames :
                   environment.stored[r][key] =
                       IF sensitiveName(key) \/ environment.processEnv[r][key] = <<>>
                           THEN undefined
                           ELSE environment.processEnv[r][key]
        /\ (\A r \in Runs : environment.pc[r] = "set") /\ differOnlyInSensitive =>
               environment.stored[1] = environment.stored[2]

\* two runs whose environments differ in api_key, Token and monkey only,
\* each of them set in one and not in the other, and PATH forwarded by both
C32_SecretsDifferForwardedSame ==
    /\ environment.filterSensitive
    /\ \A r \in Runs : environment.pc[r] = "set"
    /\ differOnlyInSensitive
    /\ \A key \in EnvNames :
           sensitiveName(key) =>
               /\ environment.processEnv[1][key] # environment.processEnv[2][key]
               /\ \E r \in Runs : environment.processEnv[r][key] = <<"v">>
    /\ \A r \in Runs : environment.stored[r][<<"P", "A", "T", "H">>] = <<"v">>

\* ---- validateSandboxPath ----

\* the blocked patterns the validated path contains
blockedIn(p) == {k \in 1..Len(blockedPatterns) : includes(p, blockedPatterns[k])}

\* the result has an error for each blocked pattern the path contains and no
\* other error, is invalid exactly when it has one, and has one warning, which
\* names the path as it was given, exactly when the path is outside every
\* allowed directory
advisoryResult(p, result) ==
    /\ \A k \in blockedIn(p) :
           \E i \in 1..Len(result.errors) : result.errors[i] = blockedPatternIn(blockedPatterns[k])
    /\ Len(result.errors) = Cardinality(blockedIn(p))
    /\ result.valid = (blockedIn(p) = {})
    /\ result.warnings = IF isAllowed(p) THEN <<>> ELSE <<notInAllowedDirectories(p)>>

\* C33 as stated: for every non-empty path validateSandboxPath returns an
\* error for each blocked pattern the path contains, and for a path without
\* blocked pattern outside every allowed directory valid = true with a
\* warning and no error.
C33_AdvisoryForNonEmptyPaths ==
    pathCheck.pc = "validated" /\ Len(pathCheck.path) # 0 =>
        advisoryResult(pathCheck.path, pathCheck.result)

\* C33, amended: the same for every path that has a character other than
\* white space; a path of white space only is rejected like the empty path,
\* with the one error "Sandbox path is empty" and no warning.
C33_AdvisoryForNonBlankPaths ==
    pathCheck.pc = "validated" =>
        IF trimsToEmpty(pathCheck.path)
            THEN pathCheck.result =
                     [valid |-> FALSE, errors |-> <<SandboxPathIsEmpty>>, warnings |-> <<>>]
            ELSE advisoryResult(pathCheck.path, pathCheck.result)

\* "/etc" holds no blocked pattern and is outside every allowed directory: it
\* is valid, with a warning and no error
C33_OutsideAllowListOnlyWarned ==
    /\ pathCheck.pc = "validated"
    /\ pathCheck.path = <<"/", "e", "t", "c">>
    /\ pathCheck.result.valid
    /\ pathCheck.result.errors = <<>>
    /\ Len(pathCheck.result.warnings) = 1

\* a path with two blocked patterns inside an allowed directory: two errors,
\* no warning
C33_TwoBlockedPatterns ==
    /\ pathCheck.pc = "validated"
    /\ isAllowed(pathCheck.path)
    /\ Cardinality(blockedIn(pathCheck.path)) = 2
    /\ Len(pathCheck.result.errors) = 2
    /\ pathCheck.result.warnings = <<>>

\* ---- a teardown and the session it tore down ----

\* C34 as stated: a cleanup() that ends clears only the session it tore
\* down; when the manager holds another session by then (one created while
\* the cleanup was awaiting server.close() or sandbox.kill()), that session
\* stays the manager's current session.
C34_TeardownClearsOnlyItsSession ==
    [][\A p \in Procs :
          inCleanup(p) /\ ~inCleanup(p)' /\ session # NoSession
                       /\ session.id # loc[p].sandbox
              => session' = session]_vars

\* main was handed session n by getOrCreateSession or reset and nothing is in
\* progress; the manager holds no session, while sandbox n is alive, its tool
\* server listens and its tunnel is active: nothing tore session n down
C34_NewSessionDropped ==
    /\ Quiescent
    /\ session = NoSession
    /\ hRet.kind = "created"
    /\ liveSandbox(hRet.id)
    /\ sb[hRet.id].handle
    /\ ts[hRet.id] = "listening"
    /\ hRet.tunnel # 0
    /\ tn[hRet.tunnel].state = "active"

\* ---- a tunnel established during validation ----

\* C35 as stated: when startLocaltunnelWithRetry resolves inside
\* validateSession, the tunnel it established is attached to the manager's
\* session, or it is stopped.
C35_ReconnectedTunnelAttachedOrStopped ==
    [][GocReconnected(TRUE) =>
          \/ session' # NoSession /\ session'.tunnel = nTunnels'
          \/ tn'[nTunnels'].state = "stopped" /\ ~tn'[nTunnels'].timer]_vars

\* nothing is in progress and the manager holds no session, while the tunnel
\* that main's validateSession established is active and its health-check
\* timer runs
C35_ReconnectedTunnelLeaked ==
    /\ Quiescent
    /\ session = NoSession
    /\ hCall.op = "goc"
    /\ hCall.reconnect = "ok"
    /\ tn[hCall.createdTunnel].kind = "tunnel"
    /\ tn[hCall.createdTunnel].state = "active"
    /\ tn[hCall.createdTunnel].timer

\* ---- the interactive loop and the manager's session ----

\* this step starts runTaskWithSession
taskStarts == cli.pc # "running" /\ cli'.pc = "running"

\* C36 as stated: every task the interactive loop runs is run with the
\* session the Session Manager holds when the task starts; after a teardown
\* the next task gets its session from getOrCreateSession first.
C36_TaskRunsOnCurrentSession ==
    [][taskStarts => mgr'.ranWith # 0 /\ mgr'.ranWith = mgr'.held]_vars

\* a task of the loop is running with a session the manager no longer holds,
\* and the turn did not call getOrCreateSession
C36_TaskOnTornDownSession ==
    /\ cli.mode = "interactive"
    /\ cli.pc = "running"
    /\ mgr.ranWith # 0
    /\ mgr.held = 0
    /\ "getOrCreateSession" \notin cli.work

\* C36, the part that holds: the first task of the loop, and every task after
\* the loop dropped its session, gets its session from getOrCreateSession
\* and runs with the session the manager holds then.
C36_FreshSessionIsCurrent ==
    [][taskStarts /\ cli.pc = "session" =>
          mgr'.ranWith # 0 /\ mgr'.ranWith = mgr'.held]_vars

\* ---- createSession: order of the steps and the failed sandbox ----

\* sandbox.initialize() of createSession raised in this step
sandboxInitFailed ==
    /\ pc["main"] = "cs_sandbox"
    /\ pc'["main"] # "cs_sandbox"
    /\ nSandboxes' = nSandboxes

\* C37 as stated: createSession goes sandbox, tool server, tunnel, each step
\* after the success of the one before, with no retry by the manager; when
\* the sandbox cannot be initialized the call raises, no tool server and no
\* tunnel is started, the manager has no session and no idle-check interval
\* runs.
C37_CreationOrderAndFatalInit ==
    [][/\ \A n \in 1..MaxSessions :
             ts[n] # "listening" /\ ts'[n] = "listening" =>
                 sb[n].handle /\ pc["main"] = "cs_listen"
                              /\ loc["main"].sandbox = n
       /\ pc["main"] \in {"cs_listen", "cs_tunnel"} /\ nTunnels' > nTunnels =>
             ts'[loc["main"].sandbox] = "listening"
       /\ sandboxInitFailed =>
             /\ hRet'.kind = "threw"
             /\ pc'["main"] = "idle"
             /\ ts' = ts /\ tn' = tn /\ nTunnels' = nTunnels
             /\ session' = NoSession
             /\ ~idleCheckInterval']_vars

\* getOrCreateSession raised because the sandbox could not be initialized, the
\* manager holds no session, and an idle-check interval is running
C37_TimerRunsAfterFailedInit ==
    /\ pc["main"] = "idle"
    /\ hCall.op = "goc"
    /\ hRet.kind = "threw"
    /\ hCall.createdSandbox = 0
    /\ session = NoSession
    /\ idleCheckInterval

\* C37, the part that holds: the order of the steps, and on a failed sandbox
\* initialization the call raises at once, starts no tool server and no
\* tunnel, starts no idle-check interval, and the manager has no session.
C37_OrderAndNothingStarted ==
    [][/\ \A n \in 1..MaxSessions :
             ts[n] # "listening" /\ ts'[n] = "listening" =>
                 sb[n].handle /\ pc["main"] = "cs_listen"
                              /\ loc["main"].sandbox = n
       /\ pc["main"] \in {"cs_listen", "cs_tunnel"} /\ nTunnels' > nTunnels =>
             ts'[loc["main"].sandbox] = "listening"
       /\ sandboxInitFailed =>
             /\ hRet'.kind = "threw"
             /\ pc'["main"] = "idle"
             /\ ts' = ts /\ tn' = tn /\ nTunnels' = nTunnels
             /\ session' = NoSession
             /\ idleCheckInterval' = idleCheckInterval]_vars

\* ---- the sandbox path the tool server hands to the adapter ----

\* the sandbox path a transfer request asks for: sandbox_path, or for an
\* upload without one the input directory and the matched file's name
requestedSandboxPath ==
    IF rq.path = "/upload" /\ falsy(rq.parameters.sandbox_path)
        THEN defaultInputPrefix \o posixBasename(rq.matched)
    ELSE rq.parameters.sandbox_path

hasBlockedPattern(p) ==
    \E k \in 1..Len(blockedPatterns) : includes(p, blockedPatterns[k])

transferRequest == rq.path \in {"/upload", "/download"} /\ rq.method = "POST"

\* C38: uploadFile and downloadFile are awaited only with the sanitized form
\* of the requested sandbox path, which passes validateSandboxPath and holds
\* no blocked pattern; a request whose transfer ran was handed that path; and
\* path_sanitized of a success response is true exactly when the sanitized
\* path differs from the requested one.
C38_AdapterGetsSanitizedValidPath ==
    /\ transferRequest /\ (rq.pc \in {"uploading", "downloading"} \/ rq.sandboxOps) =>
           /\ rq.sanitized = sanitizeSandboxPath(requestedSandboxPath)
           /\ validateSandboxPath(rq.sanitized).valid
           /\ ~hasBlockedPattern(rq.sanitized)
    /\ transferRequest /\ rq.pc = "answered" /\ rq.success = "true" =>
           /\ rq.status = 200
           /\ rq.sandbox_path = sanitizeSandboxPath(requestedSandboxPath)
           /\ rq.path_sanitized = (rq.sandbox_path # requestedSandboxPath)
    /\ transferRequest /\ rq.pc = "answered" /\ rq.success = "false" =>
           rq.status = 200 /\ ~rq.sandboxOps

\* a download asked for a path with "../" in it, the adapter was handed the
\* path without it, and the response says path_sanitized
C38_BlockedPatternRemovedBeforeDownload ==
    /\ rq.pc = "answered"
    /\ rq.path = "/download"
    /\ rq.success = "true"
    /\ rq.sandboxOps
    /\ hasBlockedPattern(rq.parameters.sandbox_path)
    /\ ~hasBlockedPattern(rq.sandbox_path)
    /\ rq.path_sanitized

\* ---- fuzzy resolution of a local path ----

\* the path fuzzyFindFile is called with
askedPath == resolve(fuzzy.filePath)

\* the regular files next to the asked path whose name starts with its
\* basename
siblingFiles ==
    IF dirname(askedPath) # Cwd THEN {}
    ELSE {f \in LocalNames : /\ fuzzy.files[f] = "file"
                             /\ startsWith(f, posixBasename(askedPath))
                             /\ f # posixBasename(askedPath)}

\* the common extensions that make the asked path a regular file
fileExtensions ==
    {k \in 1..Len(FUZZY_EXTENSIONS) :
        stat(fuzzy.files, askedPath \o FUZZY_EXTENSIONS[k]) = "file"}

exactExists == stat(fuzzy.files, askedPath) # "none"

\* the result follows the order exact path, common extensions in list order
\* (for a path without extension)
resolvedInOrder ==
    /\ exactExists =>
           fuzzy.result.found /\ fuzzy.result.matchedPath = askedPath
                              /\ ~fuzzy.result.fuzzyMatch
    /\ ~exactExists /\ extname(askedPath) = <<>> /\ fileExtensions # {} =>
           /\ fuzzy.result.found /\ fuzzy.result.fuzzyMatch
           /\ \E k \in fileExtensions :
                 /\ \A j \in fileExtensions : k <= j
                 /\ fuzzy.result.matchedPath = askedPath \o FUZZY_EXTENSIONS[k]
    /\ fuzzy.result.found /\ fuzzy.result.fuzzyMatch =>
           /\ fuzzy.result.kind = "file"
           /\ \/ \E k \in fileExtensions :
                     fuzzy.result.matchedPath = askedPath \o FUZZY_EXTENSIONS[k]
              \/ \E f \in siblingFiles :
                     fuzzy.result.matchedPath = joinPath(Cwd, f)

\* C39 as stated: exact path, then the common extensions in list order for a
\* path without extension, then the siblings that start with the basename;
\* with no exact path and a sibling regular file sharing the prefix a regular
\* file is returned, and null only when there is no such file.
C39_ResolutionOrderAndCompleteness ==
    fuzzy.pc = "done" =>
        /\ resolvedInOrder
        /\ ~exactExists /\ siblingFiles # {} =>
               fuzzy.result.found /\ fuzzy.result.kind = "file"
        /\ ~fuzzy.result.found => ~exactExists /\ siblingFiles = {}

\* "repo" was asked for where report is a directory and report.md a regular
\* file: null is returned
C39_DirectoryHidesSiblingFile ==
    /\ fuzzy.pc = "done"
    /\ fuzzy.filePath = <<"r", "e", "p", "o">>
    /\ fuzzy.files[<<"r", "e", "p", "o", "r", "t">>] = "dir"
    /\ fuzzy.files[<<"r", "e", "p", "o", "r", "t", ".", "m", "d">>] = "file"
    /\ ~fuzzy.result.found

\* C39, the part that holds: the order of the three steps; a fuzzy result is
\* a regular file; and null is returned only when no common extension gives
\* a regular file and the shortest sibling entries are not all regular files.
C39_OrderAndFirstSiblingOnly ==
    fuzzy.pc = "done" =>
        /\ resolvedInOrder
        /\ ~fuzzy.result.found =>
               /\ ~exactExists
               /\ extname(askedPath) = <<>> => fileExtensions = {}
               /\ \/ prefixMatches(fuzzy.files, askedPath) = {}
                  \/ \E f \in shortestMatches(fuzzy.files, askedPath) :
                         fuzzy.files[f] # "file"

\* ---- the pacing of the retries ----

\* min(baseDelayMs * 2^k, maxDelayMs) for the i-th retry, k = i - 1
cappedDelayOf(i) ==
    mathMin(rOptions.baseDelayMs * 2^(i - 1), rOptions.maxDelayMs)

\* onRetry is called once for each retry, with the attempt numbers 1, 2, ...
\* and the delay that is then slept, each call right before its sleep; no
\* call is made for the failure that ends withRetry
onRetryOncePerRetry ==
    /\ Len(pace.calls) = Len(pace.delays)
    /\ Len(pace.calls) = rOnRetry
    /\ Len(pace.calls) = IF rPc \in {"returned", "thrown"} THEN rInvocations - 1
                         ELSE rInvocations
    /\ \A i \in 1..Len(pace.calls) :
           /\ pace.calls[i].attempt = i
           /\ pace.calls[i].delayMs = pace.delays[i]
           /\ pace.calls[i].error = asError(rRaised[i])
           /\ isRetryableError(pace.calls[i].error, rOptions)
           /\ i < rOptions.maxAttempts
    /\ \A j \in 1..Len(pace.log) :
           /\ pace.log[j] = "onRetry" => j < Len(pace.log) /\ pace.log[j + 1] = "sleep"
           /\ pace.log[j] = "sleep" => j > 1 /\ pace.log[j - 1] = "onRetry"
           /\ pace.log[j] = "throw" => j = Len(pace.log)
    /\ rPc = "thrown" =>
           /\ pace.log # <<>>
           /\ pace.log[Len(pace.log)] = "throw"

\* C40 as stated: the delay d before the k-th retry has
\* 0.75 c <= d <= 1.25 c for c = min(baseDelayMs * 2^k, maxDelayMs), so
\* d <= 1.25 maxDelayMs; onRetry is called once per retry, before the sleep,
\* with the attempt numbers 1, 2, ..., and not after the last failure or a
\* non-retryable error.
C40_DelayWithinQuarterOfCap ==
    /\ onRetryOncePerRetry
    /\ \A i \in 1..Len(pace.delays) :
           /\ 3 * cappedDelayOf(i) <= 4 * pace.delays[i]
           /\ 4 * pace.delays[i] <= 5 * cappedDelayOf(i)
           /\ 4 * pace.delays[i] <= 5 * rOptions.maxDelayMs

\* C40 with the rounding of the delay: d is a whole number of milliseconds
\* less than half a millisecond outside 0.75 c .. 1.25 c, and inside it when
\* c is a multiple of 4 ms; the onRetry part as stated.
C40_DelayWithinRoundedQuarterOfCap ==
    /\ onRetryOncePerRetry
    /\ \A i \in 1..Len(pace.delays) :
           /\ 3 * cappedDelayOf(i) - 2 < 4 * pace.delays[i]
           /\ 4 * pace.delays[i] < 5 * cappedDelayOf(i) + 2
           /\ cappedDelayOf(i) % 4 = 0 =>
                  /\ 3 * cappedDelayOf(i) <= 4 * pace.delays[i]
                  /\ 4 * pace.delays[i] <= 5 * cappedDelayOf(i)
                  /\ 4 * pace.delays[i] <= 5 * rOptions.maxDelayMs

\* three retries with baseDelayMs 1000 and maxDelayMs 1500: the second and
\* the third delay are taken around the cap, the third one above it; onRetry
\* was called three times and the fourth failure was thrown
C40_ThirdRetryPacedByCap ==
    /\ rPc = "thrown"
    /\ rOptions.baseDelayMs = 1000
    /\ rOptions.maxDelayMs = 1500
    /\ Len(pace.delays) = 3
    /\ pace.delays[2] < 1500
    /\ pace.delays[3] > 1500
    /\ pace.calls[3].attempt = 3
    /\ rInvocations = 4

\* ---- vocabulary of the path properties ----

EscapePath ==
    <<"/", "h", "o", "m", "e", "/", "u", "s", "e", "r", "/", "o", "u", "t", "p", "u", "t",
      "/", ".", ".", "/", ".", ".", "/", "e", "t", "c", "/", "p", "a", "s", "s", "w", "d">>

\* p has none of the blocked patterns as a substring
noBlockedPattern(p) ==
    \A k \in 1..Len(blockedPatterns) :
        \A i \in 1..Len(p) :
            LET pat == blockedPatterns[k]
            IN  ~(i + Len(pat) - 1 <= Len(p) /\ SubSeq(p, i, i + Len(pat) - 1) = pat)

\* p starts with one of the allowed directories
hasAllowedPrefix(p) ==
    \E k \in 1..Len(allowedSandboxDirs) :
        LET dir == allowedSandboxDirs[k]
        IN  Len(p) >= Len(dir) /\ SubSeq(p, 1, Len(dir)) = dir

\* C9: for every input p, sanitizeSandboxPath(p) is absolute, starts with an
\* allowed directory and contains no blocked pattern; the path
\* "/home/user/output/../../etc/passwd" comes out under the default output
\* directory.
C9_SanitizedIsSafe ==
    pathPc \in {"once", "twice"} =>
        /\ Len(pathOut) >= 1 /\ pathOut[1] = "/"
        /\ hasAllowedPrefix(pathOut)
        /\ noBlockedPattern(pathOut)
        /\ pathIn = EscapePath =>
               /\ Len(pathOut) > Len(defaultOutputPrefix)
               /\ SubSeq(pathOut, 1, Len(defaultOutputPrefix)) = defaultOutputPrefix

\* C9: the escaping path of the specification, sanitized.
C9_EscapeRedirected ==
    /\ pathPc = "once"
    /\ pathIn = EscapePath
    /\ pathOut = defaultOutputPrefix \o <<"p", "a", "s", "s", "w", "d">>

\* C10 (as the specification states it): sanitizeSandboxPath is idempotent.
C10_Idempotent == pathPc = "twice" => pathOut2 = pathOut

\* C10: the input "." sanitized once ends in "/." and sanitized twice does
\* not.
C10_DotChanges ==
    /\ pathPc = "twice"
    /\ pathIn = <<".">>
    /\ pathOut = defaultOutputPrefix \o <<".">>
    /\ pathOut2 # pathOut

====
